---------------------------- MODULE Spec2Model ----------------------------
(***************************************************************************)
(* A model of oscar.py: the read-only query layer over the sharded hash    *)
(* files and packed .bin files of the World of Code dataset.               *)
(*                                                                         *)
(* Python values are modelled as follows.  A str is a sequence of bytes    *)
(* (naturals below 256); None, tuples and raised exceptions are tagged     *)
(* records, so that a value and None never compare equal by accident.      *)
(***************************************************************************)
EXTENDS Naturals, Integers, Sequences, FiniteSets, TLC

VARIABLES
    pool,       \* _TCH_POOL: normalised path -> the handle object stored for it
    handles,    \* every tch.Hash() object created so far, by path
    call,       \* the last library call made by the client and its outcome
    disk,       \* the files of the dataset; the library never writes them
    iter,       \* a running iteration over the content of one Tree
    ents,       \* the two entities a client holds and its last operation on them
    walk,       \* a running Tree.traverse(): the generator frames and the yields
    parse,      \* a commit content and the attributes parsed from it
    calc,       \* a function of the library applied to an argument: both, and the outcome
    proj,       \* a Project a client holds and its last operation on it
    scan,       \* a running GitObject.all(): the shard, the line, the data file
    thr,        \* two threads of one process inside the store functions
    memo        \* the instances a client holds and their cached attributes

storeVars == <<pool, handles, call, disk>>
vars == <<pool, handles, call, disk, iter, ents, walk, parse, calc, proj, scan, thr, memo>>

-----------------------------------------------------------------------------
(* Python values and outcomes *)

None == [t |-> "None"]
Str(s) == [t |-> "str", s |-> s]
Tuple(xs) == [t |-> "tuple", xs |-> xs]
Ret(v) == [k |-> "return", v |-> v]
Raise(e) == [k |-> "raise", e |-> e]
IsRaise(o) == o.k = "raise"

\* The exception classes that matter and their base classes (Python 2).
ExcBases(e) ==
    CASE e = "ObjectNotFound" -> {"ObjectNotFound", "KeyError", "LookupError"}
      [] e = "KeyError" -> {"KeyError", "LookupError"}
      [] e = "IOError" -> {"IOError", "EnvironmentError"}
      [] OTHER -> {e}

\* `except cls:` catches e
Catches(cls, e) == cls \in ExcBases(e)

-----------------------------------------------------------------------------
(* Bytes *)

SP == 32
NL == 10
NUL == 0
SEMI == 59
SLASH == 47

Min(a, b) == IF a < b THEN a ELSE b
Max(a, b) == IF a < b THEN b ELSE a

\* s[i:j] for 0 <= i, Python slice semantics (clipped to the string)
Slice(s, i, j) ==
    LET hi == Min(j, Len(s)) IN
    IF i >= hi THEN <<>> ELSE [n \in 1..(hi - i) |-> s[i + n]]

\* s[i:]
From(s, i) == Slice(s, i, Len(s))

HexDigit(n) == IF n < 10 THEN 48 + n ELSE 87 + n

\* b.encode('hex')
HexEncode(b) ==
    [n \in 1..(2 * Len(b)) |->
        LET byte == b[(n + 1) \div 2] IN
        IF n % 2 = 1 THEN HexDigit(byte \div 16) ELSE HexDigit(byte % 16)]

\* value of a hex digit character, 16 when it is none
HexValue(c) ==
    IF c >= 48 /\ c <= 57 THEN c - 48
    ELSE IF c >= 97 /\ c <= 102 THEN c - 87
    ELSE IF c >= 65 /\ c <= 70 THEN c - 55
    ELSE 16

IsHex(s) == \A n \in 1..Len(s) : HexValue(s[n]) < 16

\* s.decode('hex') for a string of hex digits of even length
HexDecode(s) ==
    [n \in 1..(Len(s) \div 2) |-> 16 * HexValue(s[2 * n - 1]) + HexValue(s[2 * n])]


-----------------------------------------------------------------------------
(* BER and LZF framing *)

\* unber without `acc = 0` after an append
RECURSIVE UnberNoReset(_, _, _, _)
UnberNoReset(s, n, acc, res) ==
    IF n > Len(s) THEN res
    ELSE IF s[n] < 128
    THEN UnberNoReset(s, n + 1, acc * 128 + (s[n] % 128), Append(res, acc * 128 + (s[n] % 128)))
    ELSE UnberNoReset(s, n + 1, acc * 128 + (s[n] % 128), res)

RECURSIVE UnberFrom(_, _, _, _)
UnberFrom(s, n, acc, res) ==
    IF n > Len(s) THEN res
    ELSE LET b == s[n]
             acc2 == acc * 128 + (b % 128)
         IN  IF b < 128 THEN UnberFrom(s, n + 1, 0, Append(res, acc2))
             ELSE UnberFrom(s, n + 1, acc2, res)

\* unber(s): iterating None raises TypeError
unber(v) ==
    IF v.t # "str" THEN Raise("TypeError")
    ELSE Ret(UnberFrom(v.s, 1, 0, <<>>))

\* the while loop of lzf_length: <<mask, start>> on exit
\* the loop of lzf_length with `mask >>= 1` at every turn
RECURSIVE LzfScanByOne(_, _, _, _)
LzfScanByOne(lower, csize, mask, start) ==
    IF mask # 0 /\ csize > start /\ (lower \div mask) % 2 = 1
    THEN LzfScanByOne(lower, csize, mask \div 2, start + 1)
    ELSE <<mask, start>>

RECURSIVE LzfHeaderScan(_, _, _, _)
LzfHeaderScan(lower, csize, mask, start) ==
    IF mask # 0 /\ csize > start /\ (lower \div mask) % 2 = 1
    THEN LzfHeaderScan(lower, csize,
                       IF mask = 128 THEN mask \div 4 ELSE mask \div 2, start + 1)
    ELSE <<mask, start>>

RECURSIVE LzfUsize(_, _, _, _)
LzfUsize(raw, i, start, usize) ==
    IF i >= start THEN usize
    ELSE LzfUsize(raw, i + 1, start, usize * 64 + (raw[i + 1] % 64))

\* lzf_length(raw_data) for a str: (start, usize) or ValueError
lzf_length(raw) ==
    IF Len(raw) = 0 THEN Raise("ValueError")
    ELSE LET lower == raw[1]
             csize == Len(raw)
             ms == LzfHeaderScan(lower, csize, 128, 1)
             mask == ms[1]
             start == ms[2]
         IN  IF mask = 0 \/ csize < start THEN Raise("ValueError")
             ELSE LET usize == LzfUsize(raw, 1, start, lower % mask) IN
                  IF usize = 0 THEN Raise("ValueError")
                  ELSE Ret(<<start, usize>>)

\* copy n bytes from position ref (0-based) of out to its end, one at a time
RECURSIVE LzfCopy(_, _, _)
LzfCopy(out, ref, n) ==
    IF n = 0 THEN out ELSE LzfCopy(Append(out, out[ref + 1]), ref + 1, n - 1)

\* lzf.decompress(data, usize): liblzf's decoder; None when the output does
\* not fit usize, ValueError on corrupted input
RECURSIVE LzfDecode(_, _, _, _)
LzfDecode(in, ip, out, usize) ==
    IF ip > Len(in) THEN (IF Len(out) = 0 THEN Raise("ValueError") ELSE Ret(Str(out)))
    ELSE LET ctrl == in[ip] IN
         IF ctrl < 32
         THEN IF Len(out) + ctrl + 1 > usize THEN Ret(None)
              ELSE IF ip + ctrl + 1 > Len(in) THEN Raise("ValueError")
              ELSE LzfDecode(in, ip + ctrl + 2,
                             out \o Slice(in, ip, ip + ctrl + 1), usize)
         ELSE LET long == (ctrl \div 32 = 7)
                  need == IF long THEN 2 ELSE 1
              IN  IF ip + need > Len(in) THEN Raise("ValueError")
                  ELSE LET len == IF long THEN 7 + in[ip + 1] ELSE ctrl \div 32
                           ref == Len(out) - ((ctrl % 32) * 256) - 1 - in[ip + need]
                       IN  IF Len(out) + len + 2 > usize THEN Ret(None)
                           ELSE IF ref < 0 THEN Raise("ValueError")
                           ELSE LzfDecode(in, ip + need + 1,
                                          LzfCopy(out, ref, len + 2), usize)

LzfDecompress(data, usize) ==
    IF Len(data) = 0 THEN Raise("ValueError") ELSE LzfDecode(data, 1, <<>>, usize)

\* decomp(raw_data)
decomp(v) ==
    IF v.t = "None" \/ Len(v.s) = 0 THEN Ret(Str(<<>>))
    ELSE IF v.s[1] = NUL THEN Ret(Str(From(v.s, 1)))
    ELSE LET h == lzf_length(v.s) IN
         IF IsRaise(h) THEN h
         ELSE LzfDecompress(From(v.s, h.v[1]), h.v[2])

-----------------------------------------------------------------------------
(* Shard resolver *)

\* x ^ y on n-bit values
RECURSIVE Xor(_, _, _)
Xor(x, y, n) ==
    IF n = 0 THEN 0
    ELSE ((x + y) % 2) + 2 * Xor(x \div 2, y \div 2, n - 1)

\* one round of FNV-1a on a 32-bit value kept as <<high 16 bits, low 16 bits>>:
\* h = ((h ^ byte) * 0x01000193) mod 2^32
FnvRound(h, byte) ==
    LET lo == (h[2] \div 256) * 256 + Xor(h[2] % 256, byte, 8)
        t == lo * 403
    IN  <<(h[1] * 403 + lo * 256 + (t \div 65536)) % 65536, t % 65536>>

RECURSIVE FnvFrom(_, _, _)
FnvFrom(s, n, h) ==
    IF n > Len(s) THEN h ELSE FnvFrom(s, n + 1, FnvRound(h, s[n]))

\* fnvhash.fnv1a_32(key), offset basis 0x811C9DC5
fnv1a_32(s) == FnvFrom(s, 1, <<33052, 40389>>)

\* PATHS[dtype]: the template, cut before a trailing ".tch", and its prefix length
PATHS(dtype) ==
    CASE dtype = "commit_random" -> <<"/fast/All.sha1c/commit_{key}", TRUE, 7>>
      [] dtype = "tree_random" -> <<"/fast/All.sha1c/tree_{key}", TRUE, 7>>
      [] dtype = "blob_offset" -> <<"/fast/All.sha1o/sha1.blob_{key}", TRUE, 7>>
      [] dtype = "blob_data" -> <<"/data/All.blobs/blob_{key}.bin", FALSE, 7>>
      [] dtype = "commit_sequential_idx" -> <<"/data/All.blobs/commit_{key}.idx", FALSE, 7>>
      [] dtype = "commit_sequential_bin" -> <<"/data/All.blobs/commit_{key}.bin", FALSE, 7>>
      [] dtype = "tree_sequential_idx" -> <<"/data/All.blobs/blob_{key}.idx", FALSE, 7>>
      [] dtype = "tree_sequential_bin" -> <<"/data/All.blobs/blob_{key}.bin", FALSE, 7>>
      [] dtype = "commit_projects" -> <<"/da0_data/basemaps/c2pFullP.{key}", TRUE, 5>>
      [] dtype = "commit_children" -> <<"/da0_data/basemaps/c2ccFullP.{key}", TRUE, 5>>
      [] dtype = "commit_files" -> <<"/da0_data/basemaps/c2fFullP.{key}", TRUE, 5>>
      [] dtype = "project_commits" -> <<"/da0_data/basemaps/p2cFullP.{key}", TRUE, 5>>
      [] dtype = "author_commits" -> <<"/da0_data/basemaps/a2cFullP.{key}", TRUE, 5>>
      [] dtype = "author_projects" -> <<"/da0_data/basemaps/a2pFullP.{key}", TRUE, 5>>
      [] dtype = "blob_commits" -> <<"/da0_data/basemaps/b2cFullP.{key}", TRUE, 5>>
      [] dtype = "file_commits" -> <<"/da0_data/basemaps/f2cFullP.{key}", TRUE, 5>>
      [] dtype = "commit_time_author" -> <<"/da0_data/basemaps/c2taFullP.{key}", TRUE, 5>>
      [] dtype = "project_authors" -> <<"/da0_data/basemaps/p2aFullP.{key}", TRUE, 5>>
      [] dtype = "commit_head" -> <<"/da0_data/basemaps/c2hFullO.{key}", TRUE, 5>>

\* A path is the template cut before a trailing ".tch", the shard put in for
\* {key}, and whether the string ends with ".tch".
Path(name, key, tch) == [name |-> name, key |-> key, tch |-> tch]

\* `prefix = p & (2**prefix_length - 1); return path.format(key=prefix)`
ShardPath(entry, p) == Path(entry[1], p % (2 ^ entry[3]), entry[2])

\* resolve_path(dtype, object_key, use_fnv)
resolve_path(dtype, object_key, use_fnv) ==
    ShardPath(PATHS(dtype),
              IF use_fnv THEN fnv1a_32(object_key)[2] ELSE object_key[1])

-----------------------------------------------------------------------------
(* The dataset on disk: fixtures standing for the files of the pipeline *)

\* a 20-byte binary SHA with the given first byte
MkSha(first, fill) == [i \in 1..20 |-> IF i = 1 THEN first ELSE fill]

BlobA == MkSha(1, 170)      \* in the offset index, stored uncompressed
BlobB == MkSha(129, 187)    \* same shard as BlobA, stored LZF-compressed
BlobC == MkSha(2, 204)      \* in the offset index; its .bin file ends early
BlobD == MkSha(130, 221)    \* absent from the offset index of an existing shard
BlobE == MkSha(3, 238)      \* the offset index of its shard does not exist
BlobF == MkSha(4, 17)       \* in the offset index; its .bin file does not exist

TreeRoot == MkSha(16, 1)    \* a -> BlobA, d -> TreeSub, e -> BlobC
TreeSub == MkSha(17, 2)     \* b -> BlobB, s -> TreeLeaf
TreeLeaf == MkSha(18, 3)    \* c -> BlobA
TreeCycA == MkSha(19, 4)    \* f -> BlobA, x -> TreeCycB
TreeCycB == MkSha(20, 5)    \* y -> TreeCycA
TreeGone == MkSha(21, 6)    \* m -> a tree that is not in the dataset

CommitA == MkSha(32, 7)
CommitB == MkSha(33, 8)
CommitGone == MkSha(96, 9)  \* no relation knows it; in the shards of CommitA

ProjectP == <<112>>         \* "p"
ProjectQ == <<113, 105>>    \* "qi", not in the dataset; in the shard of "p"
AuthorA == <<97, 32, 60, 97, 62>>   \* "a <a>"
AuthorGone == <<122, 120>>  \* "zx", not in the dataset; in the shard of "a <a>"
FileF == <<102>>            \* "f"
FileGone == <<103, 101>>    \* "ge", not in the dataset; in the shard of "f"

Mode40000 == <<52, 48, 48, 48, 48>>
Mode100644 == <<49, 48, 48, 54, 52, 52>>

\* one entry of a git tree object: mode SP name NUL 20-byte hash
TreeEntry(mode, name, sha) == mode \o <<SP>> \o name \o <<NUL>> \o sha

\* a frame of Compress::LZF that stores its payload uncompressed
Stored(payload) == <<NUL>> \o payload

\* the entries <<mode, name, hash>> of each tree object of the dataset
TreeEntriesOf(sha) ==
    CASE sha = TreeRoot -> << <<Mode100644, <<97>>, BlobA>>,
                              <<Mode40000, <<100>>, TreeSub>>,
                              <<Mode100644, <<101>>, BlobC>> >>
      [] sha = TreeSub -> << <<Mode100644, <<98>>, BlobB>>,
                             <<Mode40000, <<115>>, TreeLeaf>> >>
      [] sha = TreeLeaf -> << <<Mode100644, <<99>>, BlobA>> >>
      [] sha = TreeCycA -> << <<Mode100644, <<102>>, BlobA>>,
                              <<Mode40000, <<120>>, TreeCycB>> >>
      [] sha = TreeCycB -> << <<Mode40000, <<121>>, TreeCycA>> >>
      [] sha = TreeGone -> << <<Mode40000, <<109>>, MkSha(22, 10)>> >>
      [] OTHER -> <<>>

\* the content of a tree object: its entries one after another
RECURSIVE TreeContent(_)
TreeContent(entries) ==
    IF entries = <<>> THEN <<>>
    ELSE TreeEntry(entries[1][1], entries[1][2], entries[1][3])
            \o TreeContent(Tail(entries))

TreeRootData == TreeContent(TreeEntriesOf(TreeRoot))
TreeSubData == TreeContent(TreeEntriesOf(TreeSub))
TreeLeafData == TreeContent(TreeEntriesOf(TreeLeaf))
TreeCycAData == TreeContent(TreeEntriesOf(TreeCycA))
TreeCycBData == TreeContent(TreeEntriesOf(TreeCycB))
TreeGoneData == TreeContent(TreeEntriesOf(TreeGone))

\* the key/value pairs of the hash files, each under the data type it is stored as
HashRecords ==
    { <<"blob_offset", FALSE, BlobA, <<0, 4>> >>,
      <<"blob_offset", FALSE, BlobB, <<4, 5>> >>,
      <<"blob_offset", FALSE, BlobC, <<0, 4>> >>,
      <<"blob_offset", FALSE, BlobF, <<0, 3>> >>,
      <<"tree_random", FALSE, TreeRoot, Stored(TreeRootData) >>,
      <<"tree_random", FALSE, TreeSub, Stored(TreeSubData) >>,
      <<"tree_random", FALSE, TreeLeaf, Stored(TreeLeafData) >>,
      <<"tree_random", FALSE, TreeCycA, Stored(TreeCycAData) >>,
      <<"tree_random", FALSE, TreeCycB, Stored(TreeCycBData) >>,
      <<"tree_random", FALSE, TreeGone, Stored(TreeGoneData) >>,
      <<"blob_commits", FALSE, BlobA, CommitA \o CommitB >>,
      <<"commit_children", FALSE, CommitA, CommitB >>,
      <<"commit_projects", FALSE, CommitA, Stored(ProjectP \o <<SEMI>> \o ProjectQ) >>,
      <<"commit_files", FALSE, CommitA, Stored(FileF) >>,
      <<"commit_time_author", FALSE, CommitA, <<49, SEMI>> \o AuthorA >>,
      <<"commit_head", FALSE, CommitA, CommitB >>,
      <<"project_commits", TRUE, ProjectP, CommitA \o CommitB >>,
      <<"project_authors", TRUE, ProjectP, Stored(AuthorA) >>,
      <<"file_commits", TRUE, FileF, CommitA >>,
      <<"author_commits", TRUE, AuthorA, CommitA >>,
      <<"author_projects", TRUE, AuthorA, Stored(ProjectP) >> }

RecordPath(r) == resolve_path(r[1], r[3], r[2])

\* the .tch files that exist, each a map from its keys to their values
TchImage ==
    [path \in { RecordPath(r) : r \in HashRecords } |->
        [key \in { r[3] : r \in { x \in HashRecords : RecordPath(x) = path } } |->
            (CHOOSE r \in HashRecords : RecordPath(r) = path /\ r[3] = key)[4]]]

\* the packed .bin files that exist and their bytes; the second one ends early
BinImage ==
    [path \in { resolve_path("blob_data", b, FALSE) : b \in {BlobA, BlobC} } |->
        IF path = resolve_path("blob_data", BlobA, FALSE)
        THEN Stored(<<104, 105, 10>>) \o <<3, 2, 97, 98, 99>>
        ELSE Stored(<<104, 105>>)]

DiskImage == [tch |-> TchImage, bin |-> BinImage]

-----------------------------------------------------------------------------
(* Entities *)

GitClasses == {"GitObject", "Blob", "Tree", "Commit", "Commit_info", "Tag"}

\* the classes a class derives from, itself included
ClassBases(cls) ==
    IF cls \in {"Blob", "Tree", "Commit", "Commit_info", "Tag"}
    THEN {cls, "GitObject", "_Base"}
    ELSE IF cls \in {"GitObject", "Project", "File", "Author"}
    THEN {cls, "_Base"}
    ELSE {cls}

\* the class attribute `type`; "None" stands for None
ClassType(cls) ==
    CASE cls = "Blob" -> "blob"
      [] cls = "Tree" -> "tree"
      [] cls = "Commit" -> "commit"
      [] cls = "Tag" -> "tag"
      [] cls = "Project" -> "project"
      [] cls = "File" -> "file"
      [] cls = "Author" -> "author"
      [] OTHER -> "None"

\* _Base.__init__(self, key): the last assignment to self.key
BaseInitKey(sha, arg) == arg

\* GitObject.__init__(self, sha) for a str argument
GitObjectInit(cls, arg) ==
    IF Len(arg) = 40
    THEN IF ~IsHex(arg) THEN Raise("TypeError")
         ELSE Ret([cls |-> cls, type |-> ClassType(cls), sha |-> arg,
                   bin_sha |-> HexDecode(arg), key |-> BaseInitKey(arg, arg),
                   use_fnv_keys |-> FALSE])
    ELSE IF Len(arg) = 20
    THEN Ret([cls |-> cls, type |-> ClassType(cls), sha |-> HexEncode(arg),
              bin_sha |-> arg, key |-> BaseInitKey(HexEncode(arg), arg),
              use_fnv_keys |-> FALSE])
    ELSE Raise("ValueError")

\* Project.__init__, File.__init__, Author.__init__
DerivedInit(cls, key) ==
    [cls |-> cls, type |-> ClassType(cls), key |-> key, use_fnv_keys |-> TRUE]

\* _Base.__eq__(self, other)
BaseEq(self, other) ==
    /\ self.cls \in ClassBases(other.cls)
    /\ self.type = other.type
    /\ self.key = other.key

\* _Base.__hash__(self): hash(self.key); Python's hash of a str is kept as the
\* str itself, so two hashes are equal exactly when the keys are
BaseHash(self) == self.key

\* the key an entity is looked up by: GitObject.read_tch uses bin_sha
LookupKey(e) == IF e.use_fnv_keys THEN e.key ELSE e.bin_sha

\* _Base.resolve_path / GitObject.resolve_path
EntityPath(e, dtype) == resolve_path(dtype, LookupKey(e), e.use_fnv_keys)

-----------------------------------------------------------------------------
(* Handle pool and hash-file reader *)

\* MaxHandles bounds the tch.Hash() objects the client may cause to be created
MaxHandles == 2

\* `if not path.endswith('.tch'): path += '.tch'`
TchPath(path) == [path EXCEPT !.tch = TRUE]

\* a lookup that takes every path for a new one
PoolMissAlways(P, path) == TRUE

\* `if path not in _TCH_POOL`
PoolMiss(P, path) == path \notin DOMAIN P

\* the tch.Hash() objects created for a path, in creation order
HandlesOf(H, p) == IF p \in DOMAIN H THEN H[p] ELSE <<>>

\* a handle object is named by its path and its rank among those of the path
AllHandles(H) == UNION { { <<p, n>> : n \in 1..Len(H[p]) } : p \in DOMAIN H }

\* the miss branch of _get_tch for the normalised path p: a new handle object
\* is stored in the pool, then opened; open() raises when the file is not there
GetTchMiss(p, P, H, hs, exists) ==
    [pool |-> [q \in DOMAIN P \cup {p} |-> IF q = p THEN <<p, Len(hs)>> ELSE P[q]],
     handles |-> [q \in DOMAIN H \cup {p} |-> IF q = p THEN hs ELSE H[q]],
     out |-> IF exists THEN Ret(<<p, Len(hs)>>) ELSE Raise("tch.error")]

GetTchAt(p, P, H) ==
    IF PoolMiss(P, p)
    THEN GetTchMiss(p, P, H, Append(HandlesOf(H, p), [open |-> p \in DOMAIN disk.tch]),
                    p \in DOMAIN disk.tch)
    ELSE [pool |-> P, handles |-> H, out |-> Ret(P[p])]

\* _get_tch(path) on pool P and handle objects H: the new pool, the new handle
\* objects and the outcome (the handle returned, or the error of open())
get_tch(path, P, H) == GetTchAt(TchPath(path), P, H)

IsOpen(H, h) == H[h[1]][h[2]].open

\* handle[key]: the value, or the error of a handle that is not open, or KeyError
HandleGet(H, h, key) ==
    IF ~IsOpen(H, h) THEN Raise("tch.error")
    ELSE IF key \in DOMAIN disk.tch[h[1]] THEN Ret(Str(disk.tch[h[1]][key]))
    ELSE Raise("KeyError")

\* the bare `except:` of read_tch: every exception becomes None
ReadTchExcept(o) == IF IsRaise(o) THEN Ret(None) ELSE o

ReadTchWith(g, key) ==
    [pool |-> g.pool, handles |-> g.handles,
     out |-> ReadTchExcept(IF IsRaise(g.out) THEN g.out
                           ELSE HandleGet(g.handles, g.out.v, key))]

\* read_tch(path, key)
read_tch(path, key, P, H) == ReadTchWith(get_tch(path, P, H), key)

TchKeysWith(g) ==
    [pool |-> g.pool, handles |-> g.handles,
     outs |-> IF IsRaise(g.out) THEN {g.out}
              ELSE IF IsOpen(g.handles, g.out.v)
              THEN {Ret([t |-> "keys", ks |-> DOMAIN disk.tch[g.out.v[1]]])}
              ELSE {Raise("tch.error"), Ret([t |-> "keys", ks |-> {}])}]

\* tch_keys(path): the outcomes of handle.fwmkeys(''); what the library does on a
\* handle that is not open is not fixed by this code
tch_keys(path, P, H) == TchKeysWith(get_tch(path, P, H))

-----------------------------------------------------------------------------
(* Blob-segment reader *)

\* `offset, length = unber(...)`: ValueError unless there are two integers
UnpackPair(u) ==
    IF IsRaise(u) THEN u
    ELSE IF Len(u.v) # 2 THEN Raise("ValueError")
    ELSE Ret(Tuple(u.v))

\* `except ValueError: raise ObjectNotFound(...)`
PositionExcept(o) ==
    IF IsRaise(o) /\ Catches("ValueError", o.e) THEN Raise("ObjectNotFound") ELSE o

PositionWith(r) ==
    [pool |-> r.pool, handles |-> r.handles,
     out |-> PositionExcept(UnpackPair(unber(r.out.v)))]

\* Blob.position(self)
BlobPosition(self, P, H) ==
    PositionWith(read_tch(EntityPath(self, "blob_offset"), LookupKey(self), P, H))

\* fh.seek(offset); fh.read(length) on the bytes of a file: read returns what
\* is there, fewer bytes than asked at the end of the file
SeekRead(bytes, offset, length) == Slice(bytes, offset, offset + length)

\* what the reader does with the bytes fh.read(length) returned
AfterRead(got, length) == decomp(Str(got))

ReadWith(pos, got, length) ==
    [pool |-> pos.pool, handles |-> pos.handles, out |-> AfterRead(got, length),
     reads |-> << [asked |-> length, got |-> got] >>]

DataWith(pos, path) ==
    IF IsRaise(pos.out)
    THEN [pool |-> pos.pool, handles |-> pos.handles, out |-> pos.out, reads |-> <<>>]
    ELSE IF path \notin DOMAIN disk.bin
    THEN [pool |-> pos.pool, handles |-> pos.handles, out |-> Raise("IOError"),
          reads |-> <<>>]
    ELSE ReadWith(pos, SeekRead(disk.bin[path], pos.out.v.xs[1], pos.out.v.xs[2]),
                  pos.out.v.xs[2])

\* Blob.data(self); `reads` records each fh.read: the length asked and the bytes got
BlobData(self, P, H) ==
    DataWith(BlobPosition(self, P, H), EntityPath(self, "blob_data"))

-----------------------------------------------------------------------------
(* Relations *)

\* slice20(raw_data)
slice20(v) ==
    IF v.t = "None" THEN Ret(Tuple(<<>>))
    ELSE Ret(Tuple([n \in 1..((Len(v.s) + 19) \div 20) |->
                        HexEncode(Slice(v.s, 20 * (n - 1), 20 * n))]))

\* the least of a set of positions, or the given one when the set is empty
FirstOf(hits, none) ==
    IF hits = {} THEN none ELSE CHOOSE k \in hits : \A j \in hits : k <= j

\* the first position from n on, counted from 0, where the byte sep occurs in
\* s, or Len(s) when there is none
FindByte(s, sep, n) == FirstOf({ k \in n..(Len(s) - 1) : s[k + 1] = sep }, Len(s))

\* s.split(sep) for a one-byte separator, from position n on
RECURSIVE SplitFrom(_, _, _)
SplitFrom(s, sep, n) ==
    IF FindByte(s, sep, n) = Len(s) THEN <<Slice(s, n, Len(s))>>
    ELSE <<Slice(s, n, FindByte(s, sep, n))>> \o SplitFrom(s, sep, FindByte(s, sep, n) + 1)

Split(s, sep) == SplitFrom(s, sep, 0)

RECURSIVE Filter(_, _)
Filter(xs, drop) ==
    IF xs = <<>> THEN <<>>
    ELSE IF Head(xs) \in drop THEN Filter(Tail(xs), drop)
    ELSE <<Head(xs)>> \o Filter(Tail(xs), drop)

EMPTY == <<69, 77, 80, 84, 89>>

\* `(data and data.split(";")) or []`: None for a falsy data when there is no `or []`
SplitOrEmpty(d, orEmpty) ==
    IF d.t = "None" \/ Len(d.s) = 0
    THEN (IF orEmpty THEN Ret(<<>>) ELSE IF d.t = "None" THEN Raise("TypeError") ELSE Ret(<<>>))
    ELSE Ret(Split(d.s, SEMI))

\* tuple(name for name in (data and data.split(";")) or []
\*       if name and name != 'EMPTY') for data = d
NamesOf(d) ==
    IF IsRaise(d) THEN d
    ELSE Ret(Tuple(Filter(SplitOrEmpty(d.v, TRUE).v, {<<>>, EMPTY})))

\* Commit.changed_file_names: tuple((data and data.split(";")) or [])
PlainNamesOf(d) ==
    IF IsRaise(d) THEN d ELSE Ret(Tuple(SplitOrEmpty(d.v, TRUE).v))

\* tuple(x for x in xs)
TupleOf(xs) == IF IsRaise(xs) THEN xs ELSE Ret(Tuple(xs.v))

\* Commit_info.time_author: no decomp and no `or []`
TimeAuthorOf(raw) == TupleOf(SplitOrEmpty(raw, FALSE))

\* the relation-valued accessors: class, data type read, decoding
Accessors ==
    { <<"Blob", "commit_shas", "blob_commits", "sha">>,
      <<"Commit", "child_shas", "commit_children", "sha">>,
      <<"Commit", "project_names", "commit_projects", "names">>,
      <<"Commit", "changed_file_names", "commit_files", "plain">>,
      <<"Commit", "files", "commit_files", "names">>,
      <<"Commit_info", "time_author", "commit_time_author", "time_author">>,
      <<"Commit_info", "head", "commit_head", "sha">>,
      <<"Project", "commit_shas", "project_commits", "sha">>,
      <<"Project", "author_names", "project_authors", "names">>,
      <<"File", "commit_shas", "file_commits", "sha">>,
      <<"Author", "commit_shas", "author_commits", "sha">>,
      <<"Author", "project_names", "author_projects", "names">> }

RelationDecode(kind, raw) ==
    CASE kind = "sha" -> slice20(raw)
      [] kind = "names" -> NamesOf(decomp(raw))
      [] kind = "plain" -> PlainNamesOf(decomp(raw))
      [] kind = "time_author" -> TimeAuthorOf(raw)

\* one relation-valued accessor of an entity
RelationWith(r, kind) ==
    [pool |-> r.pool, handles |-> r.handles, out |-> RelationDecode(kind, r.out.v)]

Relation(acc, self, P, H) ==
    RelationWith(read_tch(EntityPath(self, acc[3]), LookupKey(self), P, H), acc[4])

-----------------------------------------------------------------------------
(* The client of the storage engine: any sequence of library calls *)

\* the SHAs a client names, each in its 20-byte and its 40-hex form
BlobShas == {BlobA, BlobB, BlobC, BlobD, BlobF}
CommitShas == {CommitA, CommitGone}
ShaForms(shas) == shas \cup { HexEncode(b) : b \in shas }

\* the paths a client passes to _get_tch, read_tch and tch_keys directly
ClientPaths ==
    { resolve_path("tree_random", TreeRoot, FALSE),
      [resolve_path("tree_random", TreeRoot, FALSE) EXCEPT !.tch = FALSE],
      resolve_path("blob_offset", BlobE, FALSE) }

ClientKeys == {TreeRoot, TreeGone, BlobE}

\* the keys a client builds an entity of each class from
KeysOf(cls) ==
    CASE cls = "Blob" -> ShaForms({BlobA, BlobB})
      [] cls \in {"Commit", "Commit_info"} -> ShaForms(CommitShas)
      [] cls = "Project" -> {ProjectP, ProjectQ}
      [] cls = "File" -> {FileF, FileGone}
      [] cls = "Author" -> {AuthorA, AuthorGone}

Entity(cls, key) ==
    IF cls \in GitClasses THEN GitObjectInit(cls, key).v ELSE DerivedInit(cls, key)

\* the state of each part of the library before a client has used it
StoreIdle ==
    /\ pool = <<>>
    /\ handles = <<>>
    /\ call = [op |-> "none"]
    /\ disk = DiskImage
EntsIdle == ents = [a |-> None, b |-> None, last |-> [op |-> "none"]]
IterIdle == iter = [status |-> "idle"]
WalkIdle == walk = [status |-> "idle"]
ParseIdle == parse = [status |-> "idle"]
CalcIdle == calc = [status |-> "idle"]
ProjIdle == proj = [status |-> "idle"]
ScanIdle == scan = [status |-> "idle"]
ThrIdle == thr = [status |-> "idle"]
MemoIdle == memo = [status |-> "idle"]

InitStore == StoreIdle /\ IterIdle /\ EntsIdle /\ WalkIdle /\ ParseIdle /\ CalcIdle /\ ProjIdle /\ ScanIdle /\ ThrIdle /\ MemoIdle

\* the effect of a call on the pool, within the bound on handle objects
Effect(r) ==
    /\ Cardinality(AllHandles(r.handles)) <= MaxHandles
    /\ pool' = r.pool
    /\ handles' = r.handles
    /\ disk' = disk

\* the effect of a call made directly by the client
StoreEffect(r) == Effect(r) /\ UNCHANGED <<iter, ents, walk, parse, calc, proj, scan, thr, memo>>

CallGetTch ==
    \E path \in ClientPaths :
        \E r \in { get_tch(path, pool, handles) } :
        /\ StoreEffect(r)
        /\ call' = [op |-> "_get_tch", path |-> path, out |-> r.out,
                    hit |-> ~PoolMiss(pool, TchPath(path))]

CallReadTch ==
    \E path \in ClientPaths, key \in ClientKeys :
        \E r \in { read_tch(path, key, pool, handles) } :
        /\ StoreEffect(r)
        /\ call' = [op |-> "read_tch", path |-> path, key |-> key, out |-> r.out]

CallTchKeys ==
    \E path \in ClientPaths :
        \E r \in { tch_keys(path, pool, handles) } :
        /\ StoreEffect(r)
        /\ \E o \in r.outs : call' = [op |-> "tch_keys", path |-> path, out |-> o]

CallBlobPosition ==
    \E sha \in ShaForms(BlobShas) :
        \E r \in { BlobPosition(Entity("Blob", sha), pool, handles) } :
        /\ StoreEffect(r)
        /\ call' = [op |-> "Blob.position", key |-> sha, out |-> r.out]

CallBlobData ==
    \E sha \in ShaForms(BlobShas) :
        \E r \in { BlobData(Entity("Blob", sha), pool, handles) } :
        /\ StoreEffect(r)
        /\ call' = [op |-> "Blob.data", key |-> sha, out |-> r.out, reads |-> r.reads]

CallRelation ==
    \E acc \in Accessors :
        \E key \in KeysOf(acc[1]) :
            \E r \in { Relation(acc, Entity(acc[1], key), pool, handles) } :
            /\ StoreEffect(r)
            /\ call' = [op |-> "relation", acc |-> acc, key |-> key, out |-> r.out]

NextStore ==
    \/ CallGetTch
    \/ CallReadTch
    \/ CallTchKeys
    \/ CallBlobPosition
    \/ CallBlobData
    \/ CallRelation

SpecStore == InitStore /\ [][NextStore]_vars

-----------------------------------------------------------------------------
(* Claims about the handle pool and the readers *)

\* C1: the pool holds at most one handle object per resolved path; a lookup of a
\* path that is already in the pool returns the handle stored there and creates
\* no handle object; no pool entry is removed or replaced and no handle object
\* is dropped or closed.
C1_OneHandlePerPath ==
    [][ /\ \A p \in DOMAIN handles' : Len(handles'[p]) <= 1
        /\ \A p \in DOMAIN pool' : pool'[p] \in AllHandles(handles') /\ pool'[p][1] = p
        /\ \A p \in DOMAIN pool : p \in DOMAIN pool' /\ pool'[p] = pool[p]
        /\ \A h \in AllHandles(handles) :
              h \in AllHandles(handles') /\ (IsOpen(handles, h) => IsOpen(handles', h))
        /\ (call'.op \in {"_get_tch", "read_tch", "tch_keys"}
                /\ TchPath(call'.path) \in DOMAIN pool)
              => /\ handles' = handles
                 /\ call'.op = "_get_tch" => call'.out = Ret(pool[TchPath(call'.path)])
      ]_storeVars

\* a second lookup found its path in the pool, under the name without ".tch",
\* while another path is pooled too
C1_Witness ==
    /\ call.op = "_get_tch"
    /\ call.hit
    /\ ~call.path.tch
    /\ call.out = Ret(pool[TchPath(call.path)])
    /\ Cardinality(DOMAIN pool) = 2

\* the blob named by the last call has no entry in the offset index of its shard
AbsentFromOffsetIndex(key) ==
    \/ EntityPath(Entity("Blob", key), "blob_offset") \notin DOMAIN disk.tch
    \/ Entity("Blob", key).bin_sha
          \notin DOMAIN disk.tch[EntityPath(Entity("Blob", key), "blob_offset")]

\* C2: Blob.position and Blob.data of a blob whose SHA is absent from the offset
\* index raise ObjectNotFound, never another exception and never a value.
C2_AbsentBlobIsNotFound ==
    (call.op \in {"Blob.position", "Blob.data"} /\ AbsentFromOffsetIndex(call.key))
        => call.out = Raise("ObjectNotFound")

\* the key of the last relation call is absent from the shard the accessor reads
AbsentFromShard(acc, key) ==
    \/ EntityPath(Entity(acc[1], key), acc[3]) \notin DOMAIN disk.tch
    \/ LookupKey(Entity(acc[1], key))
          \notin DOMAIN disk.tch[EntityPath(Entity(acc[1], key), acc[3])]

\* C3: for a key absent from the relevant shard every relation-valued accessor
\* returns an empty sequence instead of raising.
C3_AbsentKeyGivesEmpty ==
    (call.op = "relation" /\ AbsentFromShard(call.acc, call.key))
        => call.out = Ret(Tuple(<<>>))

\* C4: a failure to open a hash file reaches the caller of read_tch as an
\* IOError and is never turned into the result of an absent key.
C4_OpenFailureIsIOError ==
    (call.op = "read_tch" /\ TchPath(call.path) \notin DOMAIN disk.tch)
        => (IsRaise(call.out) /\ Catches("IOError", call.out.e))

\* C5: a read from a packed .bin file that returns fewer bytes than asked is
\* reported as IOError; the truncated bytes are not decoded.
C5_ShortReadIsIOError ==
    call.op = "Blob.data"
        => \A i \in DOMAIN call.reads :
              Len(call.reads[i].got) < call.reads[i].asked
                  => call.out = Raise("IOError")

-----------------------------------------------------------------------------
(* Entities held by a client: construction, comparison and hashing *)

EntityClasses == {"GitObject", "Blob", "Commit"}

\* what a client builds a git object from: a SHA in either form, or a str that
\* is neither 20 nor 40 bytes long
EntityArgs == ShaForms({BlobA, CommitA}) \cup {ProjectP}

\* `a = K(arg)` or `b = K(arg)`; a constructor that raises assigns nothing
HoldEntity(slot, o) ==
    IF IsRaise(o)
    THEN ents' = [ents EXCEPT !.last = [op |-> "init", out |-> o]]
    ELSE ents' = [ents EXCEPT ![slot] = o.v, !.last = [op |-> "init", out |-> Ret(None)]]

ConstructA ==
    /\ \E cls \in EntityClasses, arg \in EntityArgs :
            HoldEntity("a", GitObjectInit(cls, arg))
    /\ UNCHANGED <<pool, handles, call, disk, iter, walk, parse, calc, proj, scan, thr, memo>>

ConstructB ==
    /\ \E cls \in EntityClasses, arg \in EntityArgs :
            HoldEntity("b", GitObjectInit(cls, arg))
    /\ UNCHANGED <<pool, handles, call, disk, iter, walk, parse, calc, proj, scan, thr, memo>>

\* `a == b`, `a != b` and `hash(a) == hash(b)`
CompareEntities ==
    /\ ents.a # None
    /\ ents.b # None
    /\ ents' = [ents EXCEPT !.last =
                    [op |-> "compare",
                     eq |-> BaseEq(ents.a, ents.b),
                     ne |-> ~BaseEq(ents.a, ents.b),
                     sameHash |-> BaseHash(ents.a) = BaseHash(ents.b)]]
    /\ UNCHANGED <<pool, handles, call, disk, iter, walk, parse, calc, proj, scan, thr, memo>>

InitEntities == StoreIdle /\ IterIdle /\ EntsIdle /\ WalkIdle /\ ParseIdle /\ CalcIdle /\ ProjIdle /\ ScanIdle /\ ThrIdle /\ MemoIdle

NextEntities ==
    \/ ConstructA
    \/ ConstructB
    \/ CompareEntities

SpecEntities == InitEntities /\ [][NextEntities]_vars

\* C6: two git objects compare equal exactly when they are of the same class
\* and name the same SHA, whichever form (40 hex or 20 bytes) each was built
\* from; equal ones have equal hashes; the sha and bin_sha of an object do not
\* depend on the form it was built from.
C6_EqualityByKindAndSha ==
    /\ (ents.a # None /\ ents.b # None /\ ents.a.bin_sha = ents.b.bin_sha)
            => ents.a.sha = ents.b.sha
    /\ ents.last.op = "compare"
            => /\ ents.last.eq <=> (ents.a.cls = ents.b.cls /\ ents.a.sha = ents.b.sha)
               /\ ents.last.ne <=> ~ents.last.eq
               /\ ents.last.eq => ents.last.sameHash

-----------------------------------------------------------------------------
(* Tree objects: iteration over the entries of one tree *)

\* `while i < len(data) and data[i] != stop: i += 1`, positions counted from 0
RECURSIVE ScanTo(_, _, _)
ScanTo(data, i, stop) ==
    IF i < Len(data) /\ data[i + 1] # stop THEN ScanTo(data, i + 1, stop) ELSE i

\* the end of the name of the entry whose mode ends at position m
NameEnd(data, m) == ScanTo(data, m + 1, NUL)

\* the triple built from the entry at position i, whose mode ends at m and whose
\* name ends at n, and the position after it
EntryAt(data, i, m, n) ==
    [mode |-> Slice(data, i, m),
     fname |-> Slice(data, m + 1, n),
     sha |-> HexEncode(Slice(data, n + 1, n + 21)),
     next |-> n + 21]

\* one pass through the body of the loop of Tree.__iter__, from position i
IterEntry(data, i) ==
    EntryAt(data, i, ScanTo(data, i, SP), NameEnd(data, ScanTo(data, i, SP)))

\* the contents a Tree is iterated over: every prefix of the content of a tree
\* of the dataset, the whole content included
IterContents ==
    { Slice(TreeRootData, 0, n) : n \in 0..Len(TreeRootData) }
        \cup { Slice(TreeLeafData, 0, n) : n \in 0..Len(TreeLeafData) }

InitIter ==
    /\ StoreIdle /\ EntsIdle /\ WalkIdle /\ ParseIdle /\ CalcIdle /\ ProjIdle /\ ScanIdle /\ ThrIdle /\ MemoIdle
    /\ \E d \in IterContents : iter = [status |-> "running", data |-> d, i |-> 0, out |-> <<>>]

\* next() on the generator while `i < len(data)`: one more triple is yielded
IterYield ==
    /\ iter.status = "running"
    /\ iter.i < Len(iter.data)
    /\ \E e \in { IterEntry(iter.data, iter.i) } :
            iter' = [iter EXCEPT !.i = e.next,
                                 !.out = Append(@, <<e.mode, e.fname, e.sha>>)]
    /\ UNCHANGED <<pool, handles, call, disk, ents, walk, parse, calc, proj, scan, thr, memo>>

\* next() on the generator once `i < len(data)` is false: StopIteration
IterStop ==
    /\ iter.status = "running"
    /\ iter.i >= Len(iter.data)
    /\ iter' = [iter EXCEPT !.status = "done"]
    /\ UNCHANGED <<pool, handles, call, disk, ents, walk, parse, calc, proj, scan, thr, memo>>

NextIter ==
    \/ IterYield
    \/ IterStop

SpecIter == InitIter /\ [][NextIter]_vars

\* content in the wire format of a tree: entries "mode SP name NUL 20 bytes"
\* one after another, with nothing left over
RECURSIVE WellFormedTree(_)
WellFormedTree(data) ==
    \/ data = <<>>
    \/ /\ ScanTo(data, 0, SP) < Len(data)
       /\ NameEnd(data, ScanTo(data, 0, SP)) < Len(data)
       /\ NameEnd(data, ScanTo(data, 0, SP)) + 21 <= Len(data)
       /\ WellFormedTree(From(data, NameEnd(data, ScanTo(data, 0, SP)) + 21))

\* the content that the yielded triples stand for
YieldedContent(out) ==
    TreeContent([k \in DOMAIN out |-> <<out[k][1], out[k][2], HexDecode(out[k][3])>>])

\* C8: iterating a Tree yields one (mode, name, 40-hex sha) triple per entry, in
\* content order; content that ends inside an entry is rejected with
\* MalformedTree: no triple with a cut name or SHA is yielded and the iteration
\* of such content does not end normally.
C8_TruncatedContentRejected ==
    /\ \A k \in DOMAIN iter.out : Len(iter.out[k][3]) = 40
    /\ iter.status = "done"
          => /\ WellFormedTree(iter.data)
             /\ YieldedContent(iter.out) = iter.data

\* what does hold: well-formed content is yielded entry by entry, in order
WellFormedContentIterated ==
    (iter.status = "done" /\ WellFormedTree(iter.data))
        => YieldedContent(iter.out) = iter.data

-----------------------------------------------------------------------------
(* Tree objects: recursive traversal, the flattened file map, membership *)

PyBool(b) == [t |-> "bool", b |-> b]
PyInt(n) == [t |-> "int", n |-> n]

\* the depth of nested generators at which the interpreter refuses one more call
RecursionLimit == 4

\* self.type + '_random'
RandomDtype(self) == IF self.type = "tree" THEN "tree_random" ELSE "commit_random"

ObjectDataWith(r) ==
    [pool |-> r.pool, handles |-> r.handles, out |-> decomp(r.out.v)]

\* GitObject.data(self), uncached
GitObjectData(self, P, H) ==
    IF self.type \notin {"commit", "tree"}
    THEN [pool |-> P, handles |-> H, out |-> Raise("NotImplementedError")]
    ELSE ObjectDataWith(read_tch(EntityPath(self, RandomDtype(self)), self.bin_sha, P, H))

\* a traversal that yields the names of a subtree as they are
PathFlat(stack, k, fname) == fname

\* `fname + '/' + fname2`, applied by every generator between the one that
\* yields and the outermost one; stack[1] is the outermost generator
RECURSIVE PathFrom(_, _, _)
PathFrom(stack, k, fname) ==
    IF k > Len(stack) THEN fname
    ELSE stack[k].name \o <<SLASH>> \o PathFrom(stack, k + 1, fname)

\* `if mode == "40000"`
IsSubtree(mode) == mode = Mode40000

\* the trees a client traverses, each named by its 20 bytes or its 40 hex digits
WalkRoots == ShaForms({TreeRoot, TreeLeaf, TreeCycA, TreeGone})

WalkRaise(e) ==
    walk' = [walk EXCEPT !.status = "raised", !.end = Raise(e), !.pending = None]

WalkPush(data) ==
    walk' = [walk EXCEPT !.stack = Append(@, [name |-> walk.pending.name,
                                               data |-> data, i |-> 0]),
                         !.pending = None]

\* tree.traverse() is called; no code of the generator has run yet
StartTraverse ==
    /\ walk.status = "idle"
    /\ \E arg \in WalkRoots :
            walk' = [status |-> "running", root |-> arg, stack |-> <<>>,
                     pending |-> [name |-> <<>>, sha |-> arg], out |-> <<>>,
                     end |-> None, query |-> [op |-> "none"]]
    /\ UNCHANGED <<pool, handles, call, disk, iter, ents, parse, calc, proj, scan, thr, memo>>

\* the first next() on the generator of Tree(sha).traverse(): the content of the
\* tree is read
WalkEnterWith(t) ==
    IF IsRaise(t)
    THEN WalkRaise(t.e) /\ UNCHANGED <<pool, handles, disk>>
    ELSE \E r \in { GitObjectData(t.v, pool, handles) } :
            /\ pool' = r.pool
            /\ handles' = r.handles
            /\ disk' = disk
            /\ IF IsRaise(r.out) THEN WalkRaise(r.out.e) ELSE WalkPush(r.out.v.s)

WalkEnter ==
    /\ walk.status = "running"
    /\ walk.pending # None
    /\ Len(walk.stack) < RecursionLimit
    /\ WalkEnterWith(GitObjectInit("Tree", walk.pending.sha))
    /\ UNCHANGED <<call, iter, ents, parse, calc, proj, scan, thr, memo>>

\* the same at the recursion limit: the interpreter raises RuntimeError in the
\* call that exceeds it; raised under the `try` of read_tch it becomes None and
\* the tree reads as empty, raised anywhere else it ends the traversal
WalkLimit ==
    /\ walk.status = "running"
    /\ walk.pending # None
    /\ Len(walk.stack) >= RecursionLimit
    /\ \/ WalkRaise("RuntimeError")
       \/ WalkPush(<<>>)
    /\ UNCHANGED <<pool, handles, call, disk, iter, ents, parse, calc, proj, scan, thr, memo>>

\* the innermost generator yields its next entry, renamed on the way out
WalkYieldWith(e) ==
    walk' = [walk EXCEPT
                !.stack[Len(walk.stack)].i = e.next,
                !.out = Append(@, <<e.mode, PathFrom(walk.stack, 2, e.fname), e.sha>>),
                !.pending = IF IsSubtree(e.mode)
                            THEN [name |-> e.fname, sha |-> e.sha] ELSE None]

WalkYield ==
    /\ walk.status = "running"
    /\ walk.pending = None
    /\ walk.stack # <<>>
    /\ walk.stack[Len(walk.stack)].i < Len(walk.stack[Len(walk.stack)].data)
    /\ WalkYieldWith(IterEntry(walk.stack[Len(walk.stack)].data,
                               walk.stack[Len(walk.stack)].i))
    /\ UNCHANGED <<pool, handles, call, disk, iter, ents, parse, calc, proj, scan, thr, memo>>

\* the innermost generator is exhausted; the outermost one ends the traversal
WalkReturn ==
    /\ walk.status = "running"
    /\ walk.pending = None
    /\ walk.stack # <<>>
    /\ walk.stack[Len(walk.stack)].i >= Len(walk.stack[Len(walk.stack)].data)
    /\ walk' = [walk EXCEPT !.stack = SubSeq(@, 1, Len(@) - 1),
                            !.status = IF Len(walk.stack) = 1 THEN "done" ELSE @]
    /\ UNCHANGED <<pool, handles, call, disk, iter, ents, parse, calc, proj, scan, thr, memo>>

\* the names of the triples that `if mode != "40000"` lets through
FileNames(out) == { out[k][2] : k \in { j \in DOMAIN out : ~IsSubtree(out[j][1]) } }

\* the dict comprehension of Tree.files over the triples of a finished
\* traversal: of two triples with one name the later one stays
TreeFiles(out) ==
    [name \in FileNames(out) |->
        out[CHOOSE k \in DOMAIN out :
                /\ out[k][2] = name
                /\ ~IsSubtree(out[k][1])
                /\ \A j \in DOMAIN out :
                      (out[j][2] = name /\ ~IsSubtree(out[j][1])) => j <= k][3]]

\* Tree.blob_shas, as the set of the values of the dict
BlobShasOf(files) == { files[name] : name \in DOMAIN files }

\* Tree.__contains__(self, item)
TreeContains(files, item) ==
    IF item.t = "entity" /\ "File" \in ClassBases(item.e.cls)
    THEN item.e.key \in DOMAIN files
    ELSE IF item.t = "entity" /\ "Blob" \in ClassBases(item.e.cls)
    THEN item.e.sha \in BlobShasOf(files)
    ELSE IF item.t # "str" THEN FALSE
    ELSE item.s \in BlobShasOf(files) \/ item.s \in DOMAIN files

EntityItem(e) == [t |-> "entity", e |-> e]

\* what a client asks a tree about: files, blobs, plain strings, something else
QueryItems ==
    { EntityItem(DerivedInit("File", n)) :
          n \in { <<97>>, <<100>>, <<100, SLASH, 98>>, <<100, SLASH, 115, SLASH, 99>>,
                  <<99>>, <<109>> } }
      \cup { EntityItem(Entity("Blob", b)) : b \in ShaForms({BlobA, BlobB, TreeSub}) }
      \cup { Str(<<101>>), Str(HexEncode(BlobC)), Str(<<100>>), None }

\* a traversal that raised makes every use of Tree.files raise the same
QueryOut(v) == IF walk.status = "raised" THEN walk.end ELSE Ret(v)

\* len(tree)
QueryLen ==
    /\ walk.status \in {"done", "raised"}
    /\ walk' = [walk EXCEPT !.query =
                    [op |-> "len",
                     out |-> QueryOut(PyInt(Cardinality(DOMAIN TreeFiles(walk.out))))]]
    /\ UNCHANGED <<pool, handles, call, disk, iter, ents, parse, calc, proj, scan, thr, memo>>

\* item in tree
QueryContains ==
    /\ walk.status \in {"done", "raised"}
    /\ \E item \in QueryItems :
            walk' = [walk EXCEPT !.query =
                        [op |-> "contains", item |-> item,
                         out |-> QueryOut(PyBool(TreeContains(TreeFiles(walk.out), item)))]]
    /\ UNCHANGED <<pool, handles, call, disk, iter, ents, parse, calc, proj, scan, thr, memo>>

InitWalk == StoreIdle /\ IterIdle /\ EntsIdle /\ WalkIdle /\ ParseIdle /\ CalcIdle /\ ProjIdle /\ ScanIdle /\ ThrIdle /\ MemoIdle

NextWalk ==
    \/ StartTraverse
    \/ WalkEnter
    \/ WalkLimit
    \/ WalkYield
    \/ WalkReturn
    \/ QueryLen
    \/ QueryContains

SpecWalk == InitWalk /\ [][NextWalk]_vars

\* the 20 bytes of the tree a traversal started from
RootSha(arg) == IF Len(arg) = 40 THEN HexDecode(arg) ELSE arg

\* a tree of the dataset that contains itself, directly or through subtrees
RECURSIVE OnCycle(_, _)
OnCycle(sha, above) ==
    \/ sha \in above
    \/ \E k \in DOMAIN TreeEntriesOf(sha) :
          /\ IsSubtree(TreeEntriesOf(sha)[k][1])
          /\ OnCycle(TreeEntriesOf(sha)[k][3], above \cup {sha})

\* the triples of an acyclic tree of the dataset, by the structure of the
\* dataset: each entry from position k on, a subtree followed by its descendants
RECURSIVE Descendants(_, _, _)
Descendants(sha, prefix, k) ==
    IF k > Len(TreeEntriesOf(sha)) THEN <<>>
    ELSE << <<TreeEntriesOf(sha)[k][1], prefix \o TreeEntriesOf(sha)[k][2],
              HexEncode(TreeEntriesOf(sha)[k][3])>> >>
          \o (IF IsSubtree(TreeEntriesOf(sha)[k][1])
              THEN Descendants(TreeEntriesOf(sha)[k][3],
                               prefix \o TreeEntriesOf(sha)[k][2] \o <<SLASH>>, 1)
              ELSE <<>>)
          \o Descendants(sha, prefix, k + 1)

\* C7: a traversal of an acyclic tree ends normally, having yielded each entry
\* followed by the descendants of its subtree under paths joined by '/'; a
\* traversal of a tree that contains itself ends with CycleDetected.
C7_TraverseEndsOrDetectsCycle ==
    walk.status \in {"done", "raised"}
        => IF OnCycle(RootSha(walk.root), {})
           THEN walk.end = Raise("CycleDetected")
           ELSE /\ walk.status = "done"
                /\ walk.out = Descendants(RootSha(walk.root), <<>>, 1)

\* what does hold: the traversal of an acyclic tree
AcyclicTraverse ==
    (walk.status \in {"done", "raised"} /\ ~OnCycle(RootSha(walk.root), {}))
        => /\ walk.status = "done"
           /\ walk.out = Descendants(RootSha(walk.root), <<>>, 1)

\* the pairs <<path, blob sha>> of the entries that are not subtrees
FilePairs(out) == { <<out[k][2], out[k][3]>> : k \in { j \in DOMAIN out : ~IsSubtree(out[j][1]) } }

\* C9: for an acyclic tree, Tree.files maps exactly the paths of the entries
\* that are not subtrees, at any depth, each to its blob SHA; len(tree) is the
\* number of those paths; a File is in the tree iff its key is one of the paths
\* and a Blob iff its SHA is one of the mapped values.
C9_FilesLenContains ==
    (walk.status = "done" /\ ~OnCycle(RootSha(walk.root), {}))
        => /\ { <<n, TreeFiles(walk.out)[n]>> : n \in DOMAIN TreeFiles(walk.out) }
                 = FilePairs(Descendants(RootSha(walk.root), <<>>, 1))
           /\ walk.query.op = "len"
                 => walk.query.out
                      = Ret(PyInt(Cardinality(
                            FilePairs(Descendants(RootSha(walk.root), <<>>, 1)))))
           /\ (walk.query.op = "contains" /\ walk.query.item.t = "entity")
                 => walk.query.out
                      = Ret(PyBool(
                          \E pr \in FilePairs(Descendants(RootSha(walk.root), <<>>, 1)) :
                              IF walk.query.item.e.cls = "File"
                              THEN pr[1] = walk.query.item.e.key
                              ELSE pr[2] = walk.query.item.e.sha))

\* a file three levels down was found in the tree, and the tree has a subtree
\* whose SHA is not among the blobs
C9_Witness ==
    /\ walk.status = "done"
    /\ RootSha(walk.root) = TreeRoot
    /\ walk.query.op = "contains"
    /\ walk.query.item = EntityItem(DerivedInit("File", <<100, SLASH, 115, SLASH, 99>>))
    /\ walk.query.out = Ret(PyBool(TRUE))
    /\ ~TreeContains(TreeFiles(walk.out), EntityItem(Entity("Blob", TreeSub)))

-----------------------------------------------------------------------------
(* Commit objects: str methods used by the parser *)

\* the bytes str.strip() and str.split() take for whitespace
IsSpace(b) == b \in {9, 10, 11, 12, 13, SP}

RECURSIVE LStrip(_)
LStrip(s) == IF s # <<>> /\ IsSpace(s[1]) THEN LStrip(Tail(s)) ELSE s

RECURSIVE RStrip(_)
RStrip(s) ==
    IF s # <<>> /\ IsSpace(s[Len(s)]) THEN RStrip(SubSeq(s, 1, Len(s) - 1)) ELSE s

\* s.strip()
Strip(s) == LStrip(RStrip(s))

\* s.startswith(prefix)
StartsWith(s, prefix) == Len(s) >= Len(prefix) /\ SubSeq(s, 1, Len(prefix)) = prefix

\* s.find(sep, n): the first position from n on, counted from 0, where sep
\* occurs in s, or Len(s) when there is none
FindFrom(s, sep, n) ==
    FirstOf({ k \in n..(Len(s) - Len(sep)) : SubSeq(s, k + 1, k + Len(sep)) = sep },
            Len(s))

\* s.split(sep, 1)
SplitOnce(s, sep) ==
    IF FindFrom(s, sep, 0) = Len(s) THEN <<s>>
    ELSE << Slice(s, 0, FindFrom(s, sep, 0)), From(s, FindFrom(s, sep, 0) + Len(sep)) >>

\* s.split(sep, max) for a one-byte separator
RECURSIVE LSplit(_, _, _)
LSplit(s, sep, max) ==
    IF max = 0 \/ FindFrom(s, <<sep>>, 0) = Len(s) THEN <<s>>
    ELSE <<Slice(s, 0, FindFrom(s, <<sep>>, 0))>>
            \o LSplit(From(s, FindFrom(s, <<sep>>, 0) + 1), sep, max - 1)

\* the last position, counted from 0, where the byte sep occurs in s, or -1
RECURSIVE RFind(_, _, _)
RFind(s, sep, n) ==
    IF n = 0 THEN -1 ELSE IF s[n] = sep THEN n - 1 ELSE RFind(s, sep, n - 1)

\* s.rsplit(sep, max) for a one-byte separator
RECURSIVE RSplit(_, _, _)
RSplit(s, sep, max) ==
    IF max = 0 \/ RFind(s, sep, Len(s)) < 0 THEN <<s>>
    ELSE Append(RSplit(Slice(s, 0, RFind(s, sep, Len(s))), sep, max - 1),
                From(s, RFind(s, sep, Len(s)) + 1))

\* sep.join(xs)
RECURSIVE Join(_, _)
Join(xs, sep) ==
    IF xs = <<>> THEN <<>>
    ELSE IF Len(xs) = 1 THEN xs[1]
    ELSE xs[1] \o sep \o Join(Tail(xs), sep)

\* s.split(): the runs of bytes that are not whitespace
RECURSIVE SplitWsFrom(_, _, _)
SplitWsFrom(s, n, cur) ==
    IF n > Len(s) THEN (IF cur = <<>> THEN <<>> ELSE <<cur>>)
    ELSE IF IsSpace(s[n])
    THEN (IF cur = <<>> THEN <<>> ELSE <<cur>>) \o SplitWsFrom(s, n + 1, <<>>)
    ELSE SplitWsFrom(s, n + 1, Append(cur, s[n]))

SplitWs(s) == SplitWsFrom(s, 1, <<>>)

IsDigit(b) == b \in 48..57

RECURSIVE DigitsValue(_, _)
DigitsValue(s, acc) ==
    IF s = <<>> THEN acc ELSE DigitsValue(Tail(s), 10 * acc + (s[1] - 48))

\* int(s) for a str without whitespace: an optional sign, then decimal digits
IntOf(s) ==
    IF s # <<>> /\ s[1] \in {43, 45}
    THEN IF Len(s) > 1 /\ \A k \in 2..Len(s) : IsDigit(s[k])
         THEN Ret(IF s[1] = 45 THEN 0 - DigitsValue(Tail(s), 0) ELSE DigitsValue(Tail(s), 0))
         ELSE Raise("ValueError")
    ELSE IF s # <<>> /\ \A k \in 1..Len(s) : IsDigit(s[k])
    THEN Ret(DigitsValue(s, 0))
    ELSE Raise("ValueError")

-----------------------------------------------------------------------------
(* Commit objects: dates *)

\* time.time() when the dates are parsed
Now == 1000

DateTime(ts, hours, minutes) ==
    [t |-> "datetime", ts |-> ts, hours |-> hours, minutes |-> minutes]

\* `-1 if tz.startswith('-') else 1`
TzSign(tz) == IF StartsWith(tz, <<45>>) THEN -1 ELSE 1

\* int(tz[-4:-2])
TzHours(tz) == IntOf(Slice(tz, Max(Len(tz) - 4, 0), Max(Len(tz) - 2, 0)))

\* int(tz[-2])
TzMinutes(tz) == IF Len(tz) < 2 THEN Raise("IndexError") ELSE IntOf(<<tz[Len(tz) - 1]>>)

\* `except ValueError: return None`
DateExcept(o) == IF Catches("ValueError", o.e) THEN Ret(None) ELSE o

\* the body of parse_commit_date after `ts, tz = timestamp.split()`.
\* datetime.fromtimestamp raises ValueError for an offset of a day or more; the
\* epochs it refuses are beyond the integers of this model and later than Now
DateFrom(ts, hours, minutes, sign) ==
    IF IsRaise(ts) THEN DateExcept(ts)
    ELSE IF IsRaise(hours) THEN DateExcept(hours)
    ELSE IF IsRaise(minutes) THEN DateExcept(minutes)
    ELSE IF sign * (60 * hours.v + minutes.v) >= 1440
            \/ sign * (60 * hours.v + minutes.v) <= -1440
    THEN Ret(None)
    ELSE IF ts.v > Now THEN Ret(None)
    ELSE Ret(DateTime(ts.v, sign * hours.v, sign * minutes.v))

ParseDateOf(toks) ==
    IF Len(toks) # 2 THEN Raise("ValueError")
    ELSE DateFrom(IntOf(toks[1]), TzHours(toks[2]), TzMinutes(toks[2]), TzSign(toks[2]))

\* parse_commit_date(timestamp)
parse_commit_date(timestamp) == ParseDateOf(SplitWs(timestamp))

-----------------------------------------------------------------------------
(* Commit objects: the parser behind Commit.__getattr__ *)

KwTree == <<116, 114, 101, 101>>                    \* "tree"
KwParent == <<112, 97, 114, 101, 110, 116>>         \* "parent"
KwAuthor == <<97, 117, 116, 104, 111, 114>>        \* "author"
KwCommitter == <<99, 111, 109, 109, 105, 116, 116, 101, 114>>   \* "committer"
KwGpgsig == <<103, 112, 103, 115, 105, 103>>         \* "gpgsig"
Dashes == <<45, 45, 45, 45, 45>>
\* "-----END PGP SIGNATURE-----"
EndPgp ==
    Dashes \o <<69, 78, 68, 32, 80, 71, 80, 32, 83, 73, 71, 78, 65, 84, 85, 82, 69>>
        \o Dashes
\* "-----BEGIN PGP SIGNATURE-----"
BeginPgp ==
    Dashes \o <<66, 69, 71, 73, 78, 32, 80, 71, 80, 32, 83, 73, 71, 78, 65, 84, 85, 82, 69>>
        \o Dashes

\* `attrs` of Commit.__getattr__
CommitAttrs ==
    {"tree", "parent_shas", "message", "full_message", "author", "committer",
     "authored_at", "committed_at", "signature"}

\* setattr(self, name, value) on the attributes obj of an instance
SetAttr(obj, name, value) ==
    [a \in DOMAIN obj \cup {name} |-> IF a = name THEN value ELSE obj[a]]

\* the state of the loop over the header lines: the attributes of the instance,
\* the locals parent_shas, signature and reading_signature, the exception raised
LoopState(obj, parents, signature, reading, exc) ==
    [obj |-> obj, parents |-> parents, signature |-> signature,
     reading |-> reading, exc |-> exc]

\* `if reading_signature:` ... `continue`
SignatureLine(st, line) ==
    IF Strip(line) = EndPgp
    THEN LoopState(SetAttr(st.obj, "signature", Str(st.signature.s \o line)),
                   st.parents, Str(st.signature.s \o line), FALSE, None)
    ELSE LoopState(st.obj, st.parents, Str(st.signature.s \o line), TRUE, None)

\* `self.tree = Tree(value)`
TreeLine(st, t) ==
    IF IsRaise(t) THEN [st EXCEPT !.exc = t]
    ELSE [st EXCEPT !.obj = SetAttr(st.obj, "tree", t.v)]

\* the author and committer branches: the name is set before the date is parsed
PersonLine(st, name, at, chunks, date) ==
    IF IsRaise(date)
    THEN [st EXCEPT !.obj = SetAttr(st.obj, name, Str(chunks[1])), !.exc = date]
    ELSE [st EXCEPT !.obj = SetAttr(SetAttr(st.obj, name, Str(chunks[1])), at, date.v)]

PersonOf(st, name, at, chunks) ==
    PersonLine(st, name, at, chunks, parse_commit_date(Join(Tail(chunks), <<SP>>)))

\* the chain `if key == "tree": ... elif key == 'gpgsig': ...`
KeyValueLine(st, key, value) ==
    IF key = KwTree THEN TreeLine(st, GitObjectInit("Tree", value))
    ELSE IF key = KwParent THEN [st EXCEPT !.parents = Append(@, value)]
    ELSE IF key = KwAuthor THEN PersonOf(st, "author", "authored_at", RSplit(value, SP, 2))
    ELSE IF key = KwCommitter
    THEN PersonOf(st, "committer", "committed_at", RSplit(value, SP, 2))
    ELSE IF key = KwGpgsig THEN [st EXCEPT !.signature = Str(value), !.reading = TRUE]
    ELSE st

\* `key, value = line.split(" ", 1)` and its `except ValueError`
SplitLine(st, kv) ==
    IF Len(kv) # 2 THEN [st EXCEPT !.exc = Raise("ValueError")]
    ELSE KeyValueLine(st, kv[1], kv[2])

\* one pass through the body of `for line in self.header.split("\n")`
\* the loop body without the signature mode: every line is a header line
HeaderLineOnly(st, line) ==
    IF StartsWith(line, <<SP>>) THEN st
    ELSE IF Strip(line) = <<>> THEN st
    ELSE SplitLine(st, SplitOnce(Strip(line), <<SP>>))

HeaderLine(st, line) ==
    IF st.reading THEN SignatureLine(st, line)
    ELSE IF StartsWith(line, <<SP>>) THEN st
    ELSE IF Strip(line) = <<>> THEN st
    ELSE SplitLine(st, SplitOnce(Strip(line), <<SP>>))

RECURSIVE HeaderLoop(_, _, _)
HeaderLoop(st, lines, k) ==
    IF k > Len(lines) \/ st.exc # None THEN st
    ELSE HeaderLoop(HeaderLine(st, lines[k]), lines, k + 1)

\* `self.parent_shas = tuple(parent_shas)`; `return getattr(self, attr)`
AfterLoop(st, attr) ==
    IF st.exc # None THEN [obj |-> st.obj, out |-> st.exc]
    ELSE [obj |-> SetAttr(st.obj, "parent_shas", Tuple(st.parents)),
          out |-> IF attr = "parent_shas" THEN Ret(Tuple(st.parents))
                  ELSE Ret(st.obj[attr])]

\* the attributes once header and full_message are known
WithMessage(obj, parts) ==
    SetAttr(SetAttr(SetAttr(obj, "header", Str(parts[1])),
                    "full_message", Str(parts[2])),
            "message", Str(SplitOnce(parts[2], <<NL>>)[1]))

\* `self.header, self.full_message = self.data.split("\n\n", 1)` and what follows
ParseCommit(obj, parts, attr) ==
    IF Len(parts) # 2 THEN [obj |-> obj, out |-> Raise("ValueError")]
    ELSE AfterLoop(HeaderLoop(LoopState(WithMessage(obj, parts), <<>>, None, FALSE, None),
                              Split(parts[1], NL), 1),
                   attr)

\* `for a in attrs: setattr(self, a, None)`
AttrsCleared(obj) ==
    [a \in DOMAIN obj \cup CommitAttrs |-> IF a \in CommitAttrs THEN None ELSE obj[a]]

\* Commit.__getattr__(self, attr) on content data
CommitGetAttr(obj, data, attr) ==
    IF attr \notin CommitAttrs THEN [obj |-> obj, out |-> Raise("AttributeError")]
    ELSE ParseCommit(AttrsCleared(obj), SplitOnce(data, <<NL, NL>>), attr)

\* `commit.attr`: an attribute of the instance is returned as it is, __getattr__
\* runs for the others
GetAttr(obj, data, attr) ==
    IF attr \in DOMAIN obj THEN [obj |-> obj, out |-> Ret(obj[attr])]
    ELSE CommitGetAttr(obj, data, attr)

-----------------------------------------------------------------------------
(* Commit objects: the contents a client reads attributes of *)

\* names of authors and committers: plain, with one space, with several
PersonNames == { <<97>>, <<97, SP, 98>>, <<120, SP, SP, 60, 121, SP, 122, 62>> }

\* commit messages: one line, two lines, two paragraphs, empty
Messages == { <<109>>, <<109, NL, 110>>, <<109, NL, NL, 110, NL>>, <<>> }

ParentLists ==
    { <<>>, <<HexEncode(CommitA)>>, <<HexEncode(CommitA), HexEncode(CommitB)>>,
      <<HexEncode(CommitB), HexEncode(CommitA)>> }

\* the parts a commit content is made of; `form` tells how the content departs
\* from the format of git: not at all, by a header line without a value, or by
\* having no blank line and no message
CommitSources ==
    [tree : {HexEncode(TreeRoot)}, parents : ParentLists,
     author : PersonNames, authored : {<<53, SP, 43, 48, 49, 48, 48>>},
     committer : {<<99>>, <<97, SP, 98>>}, committed : {<<55, SP, 45, 48, 50, 51, 48>>},
     message : Messages, signed : BOOLEAN, form : {"git"}]
    \cup
    [tree : {HexEncode(TreeRoot)}, parents : {<<>>},
     author : {<<97>>}, authored : {<<53, SP, 43, 48, 49, 48, 48>>, <<53>>},
     committer : {<<99>>}, committed : {<<55, SP, 45, 48, 50, 51, 48>>},
     message : {<<109>>}, signed : {FALSE}, form : {"bare line", "no message"}]
    \cup
    [tree : {HexEncode(TreeRoot)}, parents : ParentLists,
     author : {<<97>>}, authored : {<<53, SP, 43, 48, 49, 48, 48>>},
     committer : {<<99>>}, committed : {<<55, SP, 45, 48, 50, 51, 48>>},
     message : {<<109>>}, signed : {TRUE}, form : {"signature first"}]

\* the gpgsig header of a signed commit: continuation lines start with a space
SignatureLines ==
    << KwGpgsig \o <<SP>> \o BeginPgp, <<SP>>, <<SP, 105, 81>>, <<SP>> \o EndPgp >>

RECURSIVE ParentLines(_)
ParentLines(parents) ==
    IF parents = <<>> THEN <<>>
    ELSE <<KwParent \o <<SP>> \o parents[1]>> \o ParentLines(Tail(parents))

\* a signature among whose lines one reads as a parent header and one as a
\* tree header
SignatureWithHeaders ==
    << KwGpgsig \o <<SP>> \o BeginPgp,
       KwParent \o <<SP>> \o HexEncode(CommitGone),
       KwTree \o <<SP>> \o HexEncode(TreeSub),
       <<SP>> \o EndPgp >>

\* the header of a commit whose signature comes before its other lines
SignatureFirst(c) ==
    SignatureWithHeaders
        \o <<KwTree \o <<SP>> \o c.tree>>
        \o ParentLines(c.parents)
        \o <<KwAuthor \o <<SP>> \o c.author \o <<SP>> \o c.authored,
             KwCommitter \o <<SP>> \o c.committer \o <<SP>> \o c.committed>>

HeaderLines(c) ==
    IF c.form = "signature first" THEN SignatureFirst(c) ELSE
    <<KwTree \o <<SP>> \o c.tree>>
        \o ParentLines(c.parents)
        \o <<KwAuthor \o <<SP>> \o c.author \o <<SP>> \o c.authored,
             KwCommitter \o <<SP>> \o c.committer \o <<SP>> \o c.committed>>
        \o (IF c.signed THEN SignatureLines ELSE <<>>)
        \o (IF c.form = "bare line" THEN <<KwParent>> ELSE <<>>)

\* the content of the commit object made of these parts
CommitContent(c) ==
    IF c.form = "no message" THEN Join(HeaderLines(c), <<NL>>) \o <<NL>>
    ELSE Join(HeaderLines(c), <<NL>>) \o <<NL, NL>> \o c.message

\* the attributes a client reads
ClientAttrs == CommitAttrs \cup {"header", "arbitrary_attr"}

InitParse ==
    /\ StoreIdle /\ IterIdle /\ EntsIdle /\ WalkIdle /\ CalcIdle /\ ProjIdle /\ ScanIdle /\ ThrIdle /\ MemoIdle
    /\ \E c \in CommitSources :
            parse = [status |-> "held", src |-> c, data |-> CommitContent(c),
                     obj |-> <<>>, last |-> [attr |-> "", out |-> None]]

\* `commit.attr`
ReadAttr ==
    /\ parse.status = "held"
    /\ \E attr \in ClientAttrs :
        \E r \in { GetAttr(parse.obj, parse.data, attr) } :
            parse' = [parse EXCEPT !.obj = r.obj, !.last = [attr |-> attr, out |-> r.out]]
    /\ UNCHANGED <<pool, handles, call, disk, iter, ents, walk, calc, proj, scan, thr, memo>>

NextParse == ReadAttr

SpecParse == InitParse /\ [][NextParse]_vars

SignatureOf(c) ==
    IF c.form = "signature first"
    THEN << BeginPgp, SignatureWithHeaders[2], SignatureWithHeaders[3], SignatureWithHeaders[4] >>
    ELSE << BeginPgp, SignatureLines[2], SignatureLines[3], SignatureLines[4] >>

\* C27: the signature mode begins at the gpgsig line and ends at the line that
\* reads -----END PGP SIGNATURE-----: the lines in between are appended to the
\* signature and never read as header lines; the header lines after the END
\* line are parsed as usual, so tree, parents, author and committer found
\* there are recorded; a commit without a gpgsig line has signature None.
C27_SignatureMode ==
    (parse.status = "held" /\ parse.src.form \in {"git", "signature first"}
        /\ parse.last.attr \in CommitAttrs)
    => /\ parse.obj["signature"] =
            (IF parse.src.signed THEN Str(Join(SignatureOf(parse.src), <<>>)) ELSE None)
       /\ parse.obj["tree"] = Entity("Tree", parse.src.tree)
       /\ parse.obj["parent_shas"] = Tuple(parse.src.parents)
       /\ parse.obj["author"] = Str(parse.src.author)
       /\ parse.obj["committer"] = Str(parse.src.committer)
       /\ parse.last.attr = "signature" => parse.last.out = Ret(parse.obj["signature"])

\* the signature of a commit was read whose two parents, author and committer
\* come after the END line
C27_Witness ==
    /\ parse.status = "held"
    /\ parse.src.form = "signature first"
    /\ Len(parse.src.parents) = 2
    /\ parse.last.attr = "signature"
    /\ parse.last.out = Ret(Str(Join(SignatureOf(parse.src), <<>>)))
    /\ parse.obj["parent_shas"] = Tuple(parse.src.parents)

-----------------------------------------------------------------------------
(* Projects: the commits of a project, its head, its tail, its first-parent chain *)

\* 'GitHub Merge Button <merge-button@github.com>'
MergeButton ==
    <<71, 105, 116, 72, 117, 98, 32, 77, 101, 114, 103, 101, 32, 66, 117, 116, 116, 111, 110, 32, 60, 109, 101, 114, 103, 101, 45, 98, 117, 116, 116, 111, 110, 64, 103, 105, 116, 104, 117, 98, 46, 99, 111, 109, 62>>

DAY_Z == DateTime(0, 0, 0)

\* a repository as the dataset holds it: the value stored for the project under
\* project_commits (None when there is none) and the commits stored under
\* commit_random, as the parts their contents are made of

\* Commit(sha).data: decomp of what read_tch gives, which is None for a key
\* that is not stored
CommitData(repo, sha) ==
    decomp(IF HexDecode(sha) \in DOMAIN repo.commit_random
           THEN Str(Stored(CommitContent(repo.commit_random[HexDecode(sha)])))
           ELSE None)

\* Commit(sha) and the attribute attr read from it: the attributes the
\* instance has afterwards, and the outcome
CommitWith(repo, sha, attr) == GetAttr(<<>>, CommitData(repo, sha).v.s, attr)

\* Project.commit_shas
ProjectCommitShas(repo) == slice20(repo.project_commits).v.xs

\* Project.__iter__, consumed to its end: the commits yielded, or the exception
RECURSIVE ProjectIterFrom(_, _, _, _)
ProjectIterStep(repo, shas, i, acc, r) ==
    IF IsRaise(r.out)
    THEN IF Catches("ObjectNotFound", r.out.e) THEN ProjectIterFrom(repo, shas, i + 1, acc)
         ELSE r.out
    ELSE IF r.out.v = Str(MergeButton) THEN ProjectIterFrom(repo, shas, i + 1, acc)
    ELSE ProjectIterFrom(repo, shas, i + 1, Append(acc, [sha |-> shas[i], obj |-> r.obj]))

ProjectIterFrom(repo, shas, i, acc) ==
    IF i > Len(shas) THEN Ret(acc)
    ELSE ProjectIterStep(repo, shas, i, acc, CommitWith(repo, shas[i], "author"))

ProjectIter(repo) == ProjectIterFrom(repo, ProjectCommitShas(repo), 1, <<>>)

\* the instant of a datetime, by which aware datetimes compare
Instant(dt) == dt.ts

\* `c.authored_at or DAY_Z`
AuthoredOrDayZ(obj) == IF obj["authored_at"] = None THEN DAY_Z ELSE obj["authored_at"]

\* `tails` of Project.commits
DatedTails(commits) ==
    { i \in 1..Len(commits) :
        commits[i].obj["parent_shas"].xs = <<>> /\ commits[i].obj["authored_at"] # None }

\* `min_date` of Project.commits
MinDate(commits, tails) ==
    IF tails = {} THEN DAY_Z
    ELSE commits[CHOOSE i \in tails :
                    \A j \in tails : Instant(commits[i].obj["authored_at"])
                                        <= Instant(commits[j].obj["authored_at"])]
            .obj["authored_at"]

\* the loop of Project.commits: a date before min_date becomes None
DatesValidated(commits, min_date) ==
    [i \in 1..Len(commits) |->
        IF commits[i].obj["authored_at"] # None
            /\ Instant(commits[i].obj["authored_at"]) < Instant(min_date)
        THEN [commits[i] EXCEPT !.obj = SetAttr(commits[i].obj, "authored_at", None)]
        ELSE commits[i]]

\* Project.commits, consumed to its end
CommitsOf(it) ==
    IF IsRaise(it) THEN it
    ELSE Ret(DatesValidated(it.v, MinDate(it.v, DatedTails(it.v))))

ProjectCommits(repo) == CommitsOf(ProjectIter(repo))

\* {c.sha: c for c in self.commits}
CommitDict(commits) ==
    [sha \in { commits[i].sha : i \in 1..Len(commits) } |->
        commits[CHOOSE i \in 1..Len(commits) :
                    commits[i].sha = sha
                    /\ \A j \in 1..Len(commits) : commits[j].sha = sha => j <= i].obj]

Range(xs) == { xs[i] : i \in 1..Len(xs) }

\* Project.head given the dict: the commits that head may be. sorted() keeps
\* the order of the set `heads` among commits of equal date, and that order is
\* not specified
HeadOf(commits, heads) ==
    IF heads = {} THEN { Raise("IndexError") }
    ELSE { Ret([sha |-> sha, obj |-> commits[sha]]) :
            sha \in { h \in heads :
                        \A g \in heads : Instant(AuthoredOrDayZ(commits[g]))
                                            <= Instant(AuthoredOrDayZ(commits[h])) } }

ProjectHeadWith(cs) ==
    IF IsRaise(cs) THEN { cs }
    ELSE HeadOf(CommitDict(cs.v),
                DOMAIN CommitDict(cs.v)
                    \ UNION { Range(c.obj["parent_shas"].xs) : c \in Range(cs.v) })

\* Project.head, uncached
ProjectHead(repo) == ProjectHeadWith(ProjectCommits(repo))

\* Project.tail given the dict: the SHAs the loop may return first, in the
\* unspecified order of the dict; None when it returns none
TailOf(commits, pts) ==
    IF { sha \in DOMAIN commits : sha \in pts /\ commits[sha]["parent_shas"].xs = <<>> } = {}
    THEN { Ret(None) }
    ELSE { Ret(Str(sha)) :
            sha \in { k \in DOMAIN commits : k \in pts /\ commits[k]["parent_shas"].xs = <<>> } }

ProjectTailWith(cs) ==
    IF IsRaise(cs) THEN { cs }
    ELSE TailOf(CommitDict(cs.v),
                { c.obj["parent_shas"].xs[1] :
                    c \in { d \in Range(cs.v) : d.obj["parent_shas"].xs # <<>> } })

\* Project.tail, uncached
ProjectTail(repo) == ProjectTailWith(ProjectCommits(repo))

\* Project.commits_fp is a generator: `at` is where it stands ("try" before
\* the try statement, "yielded" at the yield, "ended"), `yielded` the SHAs of
\* the commits it has yielded

FpEnded(p, end) == [p EXCEPT !.at = "ended", !.end = end]

\* `commits = {...}` and `commit = max(commits.values(), key=...)`: max of no
\* commit raises ValueError; of commits of equal date it takes the first in the
\* unspecified order of the dict
FpBegin(p, cs) ==
    IF IsRaise(cs) THEN { FpEnded(p, cs) }
    ELSE IF cs.v = <<>> THEN { FpEnded(p, Raise("ValueError")) }
    ELSE { [p EXCEPT !.commits = CommitDict(cs.v),
                     !.commit = [sha |-> sha, obj |-> CommitDict(cs.v)[sha]],
                     !.at = "try"] :
            sha \in { h \in DOMAIN CommitDict(cs.v) :
                        \A g \in DOMAIN CommitDict(cs.v) :
                            Instant(AuthoredOrDayZ(CommitDict(cs.v)[g]))
                                <= Instant(AuthoredOrDayZ(CommitDict(cs.v)[h])) } }

\* `first_parent = commit.parent_shas and commit.parent_shas[0]`
FirstParent(parent_shas) ==
    IF parent_shas.xs = <<>> THEN parent_shas ELSE Str(parent_shas.xs[1])

\* the try statement and `yield commit`; r is the outcome of commit.parent_shas
FpTried(p, r) ==
    IF IsRaise(r.out)
    THEN IF Catches("ObjectNotFound", r.out.e) THEN FpEnded(p, Ret(None))
         ELSE FpEnded(p, r.out)
    ELSE [p EXCEPT !.commit = [sha |-> p.commit.sha, obj |-> r.obj],
                   !.first_parent = FirstParent(r.out.v),
                   !.yielded = Append(p.yielded, p.commit.sha),
                   !.at = "yielded"]

\* `if not first_parent: break` and
\* `commit = commits.get(first_parent, Commit(first_parent))`
FpResumed(p) ==
    IF p.first_parent.t = "tuple" THEN FpEnded(p, Ret(None))
    ELSE IF IsRaise(GitObjectInit("Commit", p.first_parent.s))
    THEN FpEnded(p, GitObjectInit("Commit", p.first_parent.s))
    ELSE [p EXCEPT !.commit =
                        [sha |-> p.first_parent.s,
                         obj |-> IF p.first_parent.s \in DOMAIN p.commits
                                 THEN p.commits[p.first_parent.s] ELSE <<>>],
                   !.at = "try"]

\* the repositories: commits A, B and C are stored, D is when the project
\* lists it, CommitGone is not

CommitC == MkSha(34, 10)
CommitD == MkSha(35, 11)

ProjCommit(parents, author, authored) ==
    [tree |-> HexEncode(TreeRoot), parents |-> parents, author |-> author,
     authored |-> authored, committer |-> <<99>>, committed |-> authored,
     message |-> <<109>>, signed |-> FALSE, form |-> "git"]

\* an epoch (one digit, or a letter) in the zone +0100
Dated(epoch) == <<epoch, SP, 43, 48, 49, 48, 48>>

\* the epochs of A, B, C and D: increasing, decreasing, equal, B without a date
RepoDates ==
    { <<53, 54, 55, 56>>, <<55, 54, 53, 52>>, <<53, 53, 53, 53>>, <<54, 120, 53, 54>> }

\* what project_commits lists: A, B and C, B and C only, A alone, A and a
\* commit that is not stored, nothing
RepoListings ==
    { <<CommitA, CommitB, CommitC>>, <<CommitB, CommitC>>, <<CommitA>>,
      <<CommitA, CommitGone>>, <<>> }

\* the parents of D in the projects that list all four commits
ParentsOfD == { <<HexEncode(CommitB)>>, <<HexEncode(CommitC)>> }

Concat(xs) == Join(xs, <<>>)

Repos ==
    { [project_commits |-> IF listing = <<>> THEN None ELSE Str(Concat(listing)),
       commit_random |->
            (CommitA :> ProjCommit(pa, <<97>>, Dated(dates[1]))
             @@ CommitB :> ProjCommit(pb, <<97>>, Dated(dates[2]))
             @@ CommitC :> ProjCommit(pc, authorC, Dated(dates[3]))
             @@ IF Len(listing) = 4
                THEN CommitD :> ProjCommit(pd, <<97>>, Dated(dates[4]))
                ELSE <<>>)] :
        listing \in RepoListings \cup { <<CommitA, CommitB, CommitC, CommitD>> },
        pd \in ParentsOfD,
        pa \in { <<>>, <<HexEncode(CommitGone)>> },
        pb \in { <<>>, <<HexEncode(CommitA)>> },
        pc \in { <<>>, <<HexEncode(CommitA)>>, <<HexEncode(CommitB)>>,
                 <<HexEncode(CommitB), HexEncode(CommitA)>>,
                 <<HexEncode(CommitA), HexEncode(CommitB)>> },
        dates \in RepoDates,
        authorC \in { <<97>>, MergeButton } }

InitProject ==
    /\ StoreIdle /\ IterIdle /\ EntsIdle /\ WalkIdle /\ ParseIdle /\ CalcIdle /\ ScanIdle /\ ThrIdle /\ MemoIdle
    /\ \E repo \in Repos : proj = [status |-> "held", repo |-> repo, op |-> "none"]

ProjUnchanged == UNCHANGED <<pool, handles, call, disk, iter, ents, walk, parse, calc, scan, thr, memo>>

\* `project.head`
ReadHead ==
    /\ proj.status = "held" /\ proj.op = "none"
    /\ \E out \in ProjectHead(proj.repo) :
            proj' = [status |-> "held", repo |-> proj.repo, op |-> "head", out |-> out]
    /\ ProjUnchanged

\* `project.tail`
ReadTail ==
    /\ proj.status = "held" /\ proj.op = "none"
    /\ \E out \in ProjectTail(proj.repo) :
            proj' = [status |-> "held", repo |-> proj.repo, op |-> "tail", out |-> out]
    /\ ProjUnchanged

\* the first next() on `project.commits_fp`, up to the choice of the commit
FpStart ==
    /\ proj.status = "held" /\ proj.op = "none"
    /\ \E p \in FpBegin([status |-> "held", repo |-> proj.repo, op |-> "commits_fp",
                         commits |-> <<>>, commit |-> None, first_parent |-> None,
                         yielded |-> <<>>, at |-> "start", end |-> None],
                        ProjectCommits(proj.repo)) :
            proj' = p
    /\ ProjUnchanged

\* the generator runs to its yield, or ends in the try statement
FpYield ==
    /\ proj.status = "held" /\ proj.op = "commits_fp" /\ proj.at = "try"
    /\ \E r \in { GetAttr(proj.commit.obj, CommitData(proj.repo, proj.commit.sha).v.s,
                          "parent_shas") } :
            proj' = FpTried(proj, r)
    /\ ProjUnchanged

\* next() on the generator standing at its yield
FpResume ==
    /\ proj.status = "held" /\ proj.op = "commits_fp" /\ proj.at = "yielded"
    /\ proj' = FpResumed(proj)
    /\ ProjUnchanged

\* `tuple(project)`
IterProject ==
    /\ proj.status = "held" /\ proj.op = "none"
    /\ \E out \in { ProjectIter(proj.repo) } :
            proj' = [status |-> "held", repo |-> proj.repo, op |-> "__iter__", out |-> out]
    /\ ProjUnchanged

\* `tuple(project.commits)`
ReadCommits ==
    /\ proj.status = "held" /\ proj.op = "none"
    /\ \E out \in { ProjectCommits(proj.repo) } :
            proj' = [status |-> "held", repo |-> proj.repo, op |-> "commits", out |-> out]
    /\ ProjUnchanged

NextProject ==
    \/ IterProject
    \/ ReadCommits
    \/ ReadHead
    \/ ReadTail
    \/ FpStart
    \/ FpYield
    \/ FpResume

SpecProject == InitProject /\ [][NextProject]_vars

-----------------------------------------------------------------------------
\* Functions of the library applied by a client to arguments of its choosing.

\* epochs a commit may carry: past, the present second, future, not a number, none
EpochTokens == { <<53>>, <<57, 57, 57>>, <<49, 48, 48, 48>>, <<53, 48, 48, 48>>, <<120>>, <<>> }

ZoneSigns == { <<43>>, <<45>>, <<>> }

\* HH and MM: two decimal digits each
ZoneHours == { <<48, 48>>, <<48, 53>>, <<49, 49>>, <<50, 51>> }

ZoneMinutes == { <<48, 48>>, <<48, 53>>, <<51, 48>>, <<53, 57>> }

RegularZones == { sg \o hh \o mm : sg \in ZoneSigns, hh \in ZoneHours, mm \in ZoneMinutes }

\* zones git does not write: none, a sign alone, one digit, letters
IrregularZones == { <<>>, <<43>>, <<43, 49>>, <<43, 97, 98, 99, 100>> }

Timestamps ==
    { ep \o <<SP>> \o tz : ep \in EpochTokens, tz \in RegularZones \cup IrregularZones }
    \cup EpochTokens

\* the client has an argument for the function fn
Given(fn, args) == { [status |-> "given", fn |-> fn, arg |-> a] : a \in args }

IsGiven(fn) == calc.status = "given" /\ calc.fn = fn

Applied(out) ==
    /\ calc' = [status |-> "applied", fn |-> calc.fn, arg |-> calc.arg, out |-> out]
    /\ UNCHANGED <<pool, handles, call, disk, iter, ents, walk, parse, proj, scan, thr, memo>>

ApplyParseCommitDate ==
    /\ IsGiven("parse_commit_date")
    /\ \E out \in { parse_commit_date(calc.arg) } : Applied(out)

\* bytes with the high bit clear (0x00, 0x14, 0x4D) and set (0x83, 0x96)
BerBytes == { 0, 20, 77, 131, 150 }

MaxBer == 4

RECURSIVE SeqsUpTo(_, _)
SeqsUpTo(S, n) ==
    IF n = 0 THEN { <<>> }
    ELSE SeqsUpTo(S, n - 1) \cup { Append(x, b) : x \in SeqsUpTo(S, n - 1), b \in S }

BerStrings == SeqsUpTo(BerBytes, MaxBer)

ApplyUnber ==
    /\ IsGiven("unber")
    /\ \E out \in { unber(Str(calc.arg)) } : Applied(out)

\* Project.toURL

USCORE == 95

\* s.count(c) for a byte c
Count(s, c) == Cardinality({ i \in 1..Len(s) : s[i] = c })

\* s.replace(old, new, max): the occurrences of old from the left, not
\* overlapping, at most max of them (all of them when max is negative)
RECURSIVE Replace(_, _, _, _)
Replace(s, old, new, max) ==
    IF max = 0 \/ FindFrom(s, old, 0) = Len(s) THEN s
    ELSE Slice(s, 0, FindFrom(s, old, 0)) \o new
         \o Replace(From(s, FindFrom(s, old, 0) + Len(old)), old, new, max - 1)

SourceForge == <<115, 111, 117, 114, 99, 101, 102, 111, 114, 103, 101, 46, 110, 101, 116>>    \* "sourceforge.net"

GithubRoot == <<103, 105, 116, 104, 117, 98, 46, 99, 111, 109, 47>>    \* "github.com/"

Https == <<104, 116, 116, 112, 115, 58, 47, 47>>    \* "https://"

\* the pairs (key, value) of the dict toUrlMap
toUrlMap ==
    {
      \* "bb": "bitbucket.org"
      << <<98, 98>>,
         <<98, 105, 116, 98, 117, 99, 107, 101, 116, 46, 111, 114, 103>> >>,
      \* "gl": "gitlab.org"
      << <<103, 108>>,
         <<103, 105, 116, 108, 97, 98, 46, 111, 114, 103>> >>,
      \* "android.googlesource.com": "android.googlesource.com"
      << <<97, 110, 100, 114, 111, 105, 100, 46, 103, 111, 111, 103, 108, 101, 115, 111, 117, 114, 99, 101, 46, 99, 111, 109>>,
         <<97, 110, 100, 114, 111, 105, 100, 46, 103, 111, 111, 103, 108, 101, 115, 111, 117, 114, 99, 101, 46, 99, 111, 109>> >>,
      \* "bioconductor.org": "bioconductor.org"
      << <<98, 105, 111, 99, 111, 110, 100, 117, 99, 116, 111, 114, 46, 111, 114, 103>>,
         <<98, 105, 111, 99, 111, 110, 100, 117, 99, 116, 111, 114, 46, 111, 114, 103>> >>,
      \* "drupal.com": "git.drupal.org"
      << <<100, 114, 117, 112, 97, 108, 46, 99, 111, 109>>,
         <<103, 105, 116, 46, 100, 114, 117, 112, 97, 108, 46, 111, 114, 103>> >>,
      \* "git.eclipse.org": "git.eclipse.org"
      << <<103, 105, 116, 46, 101, 99, 108, 105, 112, 115, 101, 46, 111, 114, 103>>,
         <<103, 105, 116, 46, 101, 99, 108, 105, 112, 115, 101, 46, 111, 114, 103>> >>,
      \* "git.kernel.org": "git.kernel.org"
      << <<103, 105, 116, 46, 107, 101, 114, 110, 101, 108, 46, 111, 114, 103>>,
         <<103, 105, 116, 46, 107, 101, 114, 110, 101, 108, 46, 111, 114, 103>> >>,
      \* "git.postgresql.org": "git.postgresql.org"
      << <<103, 105, 116, 46, 112, 111, 115, 116, 103, 114, 101, 115, 113, 108, 46, 111, 114, 103>>,
         <<103, 105, 116, 46, 112, 111, 115, 116, 103, 114, 101, 115, 113, 108, 46, 111, 114, 103>> >>,
      \* "git.savannah.gnu.org": "git.savannah.gnu.org"
      << <<103, 105, 116, 46, 115, 97, 118, 97, 110, 110, 97, 104, 46, 103, 110, 117, 46, 111, 114, 103>>,
         <<103, 105, 116, 46, 115, 97, 118, 97, 110, 110, 97, 104, 46, 103, 110, 117, 46, 111, 114, 103>> >>,
      \* "git.zx2c4.com": "git.zx2c4.com"
      << <<103, 105, 116, 46, 122, 120, 50, 99, 52, 46, 99, 111, 109>>,
         <<103, 105, 116, 46, 122, 120, 50, 99, 52, 46, 99, 111, 109>> >>,
      \* "gitlab.gnome.org": "gitlab.gnome.org"
      << <<103, 105, 116, 108, 97, 98, 46, 103, 110, 111, 109, 101, 46, 111, 114, 103>>,
         <<103, 105, 116, 108, 97, 98, 46, 103, 110, 111, 109, 101, 46, 111, 114, 103>> >>,
      \* "kde.org": "anongit.kde.org"
      << <<107, 100, 101, 46, 111, 114, 103>>,
         <<97, 110, 111, 110, 103, 105, 116, 46, 107, 100, 101, 46, 111, 114, 103>> >>,
      \* "repo.or.cz": "repo.or.cz"
      << <<114, 101, 112, 111, 46, 111, 114, 46, 99, 122>>,
         <<114, 101, 112, 111, 46, 111, 114, 46, 99, 122>> >>,
      \* "salsa.debian.org": "salsa.debian.org"
      << <<115, 97, 108, 115, 97, 46, 100, 101, 98, 105, 97, 110, 46, 111, 114, 103>>,
         <<115, 97, 108, 115, 97, 46, 100, 101, 98, 105, 97, 110, 46, 111, 114, 103>> >>,
      \* "sourceforge.net": "git.code.sf.net/p"
      << <<115, 111, 117, 114, 99, 101, 102, 111, 114, 103, 101, 46, 110, 101, 116>>,
         <<103, 105, 116, 46, 99, 111, 100, 101, 46, 115, 102, 46, 110, 101, 116, 47, 112>> >>
    }

\* the keys URL that pass the test of the loop for p_name; the keys with "_"
\* appended are not prefixes of one another, so the order of the dict does not
\* matter
UrlHits(p_name) ==
    { kv \in toUrlMap :
        /\ StartsWith(p_name, kv[1] \o <<USCORE>>)
        /\ (Count(p_name, USCORE) >= 2 \/ kv[1] = SourceForge) }

\* p_name after the loop and `if not found`
UrlRenamed(p_name, hits) ==
    IF hits = {} THEN GithubRoot \o p_name
    ELSE Replace(p_name, (CHOOSE kv \in hits : TRUE)[1] \o <<USCORE>>,
                 (CHOOSE kv \in hits : TRUE)[2] \o <<SLASH>>, -1)

toURL(uri) == Https \o Replace(UrlRenamed(uri, UrlHits(uri)), <<USCORE>>, <<SLASH>>, 1)

\* prefixes of project URIs: those of the table, a GitHub user, and a forge of
\* the class docstring that the table does not have
UriPrefixes ==
    { kv[1] : kv \in toUrlMap } \cup { <<117, 115, 101, 114>>, <<100, 114, 117, 112, 97, 108, 46, 111, 114, 103>> }    \* "user", "drupal.org"

\* what follows the prefix: a name, a name with an underscore, a name that
\* holds a prefix of the table
UriRemainders ==
    { <<116, 101, 115, 116, 112, 114, 111, 106>>,    \* "testproj"
      <<116, 101, 115, 95, 116, 112, 114, 111, 106>>,    \* "tes_tproj"
      <<117, 95, 98, 98, 95, 114>>,    \* "u_bb_r"
      <<114, 101, 112, 111>> }    \* "repo"

ProjectUris ==
    { pre \o <<USCORE>> \o r : pre \in UriPrefixes, r \in UriRemainders } \cup UriRemainders

ApplyToURL ==
    /\ IsGiven("toURL")
    /\ \E out \in { Ret(Str(toURL(calc.arg))) } : Applied(out)

\* Commit.__sub__(self, parent, threshold) from `new_files = self.tree.files`
\* on: new_files and old_files are the dicts path -> blob SHA (hex) of the two
\* trees, threshold is in hundredths. The generator's outcome is the set of the
\* tuples it yields (the order is that of Python's sets and dicts) and how it
\* ends.

Paths(files) == DOMAIN files

\* the loop over new_paths.intersection(old_paths)
ModifiedTuples(new_files, old_files) ==
    { << Str(f), Str(f), Str(old_files[f]), Str(new_files[f]) >> :
        f \in { g \in Paths(new_files) \cap Paths(old_files) : new_files[g] # old_files[g] } }

\* the two loops under `if threshold >= 1`
ExactTuples(new_files, old_files, added_paths, deleted_paths) ==
    { << None, Str(f), None, Str(new_files[f]) >> : f \in added_paths }
    \cup { << Str(f), None, Str(old_files[f]), None >> : f \in deleted_paths }

\* {f: Blob(files[f]) for f in paths}
BlobsOf(files, paths) == [f \in paths |-> EntityItem(Entity("Blob", files[f]))]

\* sm.set_seq2(deleted_blob): SequenceMatcher enumerates its second sequence at
\* once; a Blob has __len__ (line 469) and neither __iter__ nor __getitem__
SetSeq2(blob) == Raise("TypeError")

\* the search for matches: with a deleted blob to compare with, the first added
\* blob ends the generator in set_seq2; with none, every added blob is yielded
\* as a new file, and with no added blob every deleted one as deleted
MatchTuples(added_blobs, deleted_blobs, seq2) ==
    IF DOMAIN added_blobs # {} /\ DOMAIN deleted_blobs # {} /\ IsRaise(seq2)
    THEN [emitted |-> {}, end |-> seq2]
    ELSE [emitted |->
            { << None, Str(f), None, added_blobs[f] >> : f \in DOMAIN added_blobs }
            \cup { << Str(f), None, deleted_blobs[f], None >> : f \in DOMAIN deleted_blobs },
          end |-> Ret(None)]

SubWith(new_files, old_files, threshold, added_paths, deleted_paths, modified) ==
    IF threshold >= 100
    THEN [emitted |-> modified
                        \cup ExactTuples(new_files, old_files, added_paths, deleted_paths),
          end |-> Ret(None)]
    ELSE [emitted |-> modified
                        \cup MatchTuples(BlobsOf(new_files, added_paths),
                                         BlobsOf(old_files, deleted_paths),
                                         SetSeq2(None)).emitted,
          end |-> MatchTuples(BlobsOf(new_files, added_paths),
                              BlobsOf(old_files, deleted_paths), SetSeq2(None)).end]

CommitSub(new_files, old_files, threshold) ==
    SubWith(new_files, old_files, threshold,
            Paths(new_files) \ Paths(old_files), Paths(old_files) \ Paths(new_files),
            ModifiedTuples(new_files, old_files))

\* the flattened trees of two commits: up to three paths, two blobs
DiffPaths == { <<97>>, <<98>>, <<99>> }

DiffShas == { HexEncode(BlobA), HexEncode(BlobB) }

FileDicts == UNION { [ps -> DiffShas] : ps \in SUBSET DiffPaths }

\* exact matches only, the default, every pair a rename
Thresholds == { 100, 50, 0 }

Diffs ==
    { [new_files |-> n, old_files |-> o, threshold |-> t] :
        n \in FileDicts, o \in FileDicts, t \in Thresholds }

ApplySub ==
    /\ IsGiven("__sub__")
    /\ \E out \in { CommitSub(calc.arg.new_files, calc.arg.old_files, calc.arg.threshold) } :
            Applied(out)

\* bytes of LZF headers: 00, 01, 80, 9B, A9, AF, C4, E1, FF
LzfBytes == { 0, 1, 128, 155, 169, 175, 196, 225, 255 }

MaxLzf == 3

\* headers of seven bytes, and a first byte all of whose bits are set
LongHeaders ==
    { <<254, 128, 128, 128, 128, 128, 129>>, <<254, 128, 128, 128, 128, 128, 128>>,
      <<254, 128, 128, 128, 128, 129>>, <<255, 128, 128, 128, 128, 128, 128, 128>> }

LzfStrings == SeqsUpTo(LzfBytes, MaxLzf) \cup LongHeaders

ApplyLzfLength ==
    /\ IsGiven("lzf_length")
    /\ \E out \in { lzf_length(calc.arg) } : Applied(out)

CalcInputs ==
    \/ calc \in Given("parse_commit_date", Timestamps)
    \/ calc \in Given("unber", BerStrings)
    \/ calc \in Given("toURL", ProjectUris)
    \/ calc \in Given("__sub__", Diffs)
    \/ calc \in Given("lzf_length", LzfStrings)

InitCalc ==
    /\ StoreIdle /\ IterIdle /\ EntsIdle /\ WalkIdle /\ ParseIdle /\ ProjIdle /\ ScanIdle /\ ThrIdle /\ MemoIdle
    /\ CalcInputs

NextCalc ==
    \/ ApplyParseCommitDate
    \/ ApplyUnber
    \/ ApplyToURL
    \/ ApplySub
    \/ ApplyLzfLength

SpecCalc == InitCalc /\ [][NextCalc]_vars

DateApplied == calc.status = "applied" /\ calc.fn = "parse_commit_date"

\* the zone is a sign (or none) followed by the four digits HHMM
IsRegularZone(tz) == tz \in RegularZones

\* the value of two decimal digits
TwoDigits(d) == 10 * (d[1] - 48) + (d[2] - 48)

ZoneDigits(tz) == Slice(tz, Len(tz) - 4, Len(tz))

\* C11: a zone +HHMM or -HHMM of a timestamp that parses is read as HH hours and
\* MM minutes, both negated when the sign is '-', whatever the two digits of HH
\* and of MM are.
C11_ZoneIsHoursAndMinutes ==
    (DateApplied /\ Len(SplitWs(calc.arg)) = 2
        /\ IsRegularZone(SplitWs(calc.arg)[2]) /\ calc.out # Ret(None))
    => /\ calc.out.v.hours
            = TzSign(SplitWs(calc.arg)[2])
                * TwoDigits(Slice(ZoneDigits(SplitWs(calc.arg)[2]), 0, 2))
       /\ calc.out.v.minutes
            = TzSign(SplitWs(calc.arg)[2])
                * TwoDigits(Slice(ZoneDigits(SplitWs(calc.arg)[2]), 2, 4))

\* C12: parsing a timestamp never raises: whatever the epoch and the zone are,
\* missing or unparsable ones included, the outcome is a datetime or None.
C12_DateNeverRaises == DateApplied => ~IsRaise(calc.out)


UnberApplied == calc.status = "applied" /\ calc.fn = "unber"

\* positions of the bytes of s whose high bit is clear: each ends a number
BerEnds(s) == { i \in 1..Len(s) : s[i] < 128 }

MaxOf(S) == CHOOSE x \in S : \A y \in S : y <= x

\* where the number ending at position e starts
BerStart(s, e) == MaxOf({ 1 } \cup { i + 1 : i \in { j \in BerEnds(s) : j < e } })

RECURSIVE Pow128(_)
Pow128(k) == IF k = 0 THEN 1 ELSE 128 * Pow128(k - 1)

\* the digits s[a..e] read in base 128, most significant first
RECURSIVE Base128(_, _, _)
Base128(s, a, e) ==
    IF a > e THEN 0 ELSE (s[a] % 128) * Pow128(e - a) + Base128(s, a + 1, e)

\* the numbers of s in order, one for each ending byte
RECURSIVE BerNumbers(_, _)
BerNumbers(s, ends) ==
    IF ends = {} THEN <<>>
    ELSE Append(BerNumbers(s, ends \ { MaxOf(ends) }),
                Base128(s, BerStart(s, MaxOf(ends)), MaxOf(ends)))

\* C20: unber decodes a byte string into the list of the non-negative integers
\* whose base-128 digits are the low seven bits of the bytes, a number ending at
\* every byte whose high bit is clear; 00 83 4D gives [0, 461] and 83 4D 96 14
\* gives [461, 2836].
C20_UnberDecodes ==
    UnberApplied =>
        /\ calc.out = Ret(BerNumbers(calc.arg, BerEnds(calc.arg)))
        /\ \A i \in 1..Len(calc.out.v) : calc.out.v[i] \in Nat
        /\ calc.arg = <<0, 131, 77>> => calc.out.v = <<0, 461>>
        /\ calc.arg = <<131, 77, 150, 20>> => calc.out.v = <<461, 2836>>

C20_Witness ==
    UnberApplied /\ calc.arg = <<131, 77, 150, 20>> /\ calc.out = Ret(<<461, 2836>>)


URLApplied == calc.status = "applied" /\ calc.fn = "toURL"

\* the prefix of the table that a URI starts with and that toURL recognises
\* (two underscores at least, or sourceforge); <<>> when there is none
PrefixOf(uri) ==
    IF UrlHits(uri) = {} THEN <<>> ELSE (CHOOSE kv \in UrlHits(uri) : TRUE)[1]

ForgeRoot(uri) == (CHOOSE kv \in UrlHits(uri) : TRUE)[2]

Remainder(uri) == From(uri, Len(PrefixOf(uri)) + 1)

\* s with its first underscore, if any, turned into a slash
FirstUnderscoreSlashed(s) ==
    IF FindFrom(s, <<USCORE>>, 0) = Len(s) THEN s
    ELSE [s EXCEPT ![FindFrom(s, <<USCORE>>, 0) + 1] = SLASH]

\* C19: the URL of a project is 'https://' + forge root + '/' + remainder, the
\* forge root taken from the prefix table; with no recognised prefix it is the
\* URI under github.com with only its first underscore turned into a slash;
\* for sourceforge the remainder is kept verbatim.
C19_UrlFromPrefixTable ==
    URLApplied =>
        calc.out.v.s =
            IF UrlHits(calc.arg) = {}
            THEN Https \o GithubRoot \o FirstUnderscoreSlashed(calc.arg)
            ELSE IF PrefixOf(calc.arg) = SourceForge
            THEN Https \o ForgeRoot(calc.arg) \o <<SLASH>> \o Remainder(calc.arg)
            ELSE Https \o ForgeRoot(calc.arg) \o <<SLASH>>
                    \o FirstUnderscoreSlashed(Remainder(calc.arg))

\* what holds of toURL: the claim for every URI but those of sourceforge whose
\* remainder has an underscore and those that hold their prefix twice
UrlOfOtherUris ==
    (URLApplied
        /\ ~(PrefixOf(calc.arg) = SourceForge /\ Count(Remainder(calc.arg), USCORE) > 0)
        /\ (UrlHits(calc.arg) # {}
                => FindFrom(Remainder(calc.arg), PrefixOf(calc.arg) \o <<USCORE>>, 0)
                    = Len(Remainder(calc.arg))))
    => calc.out.v.s =
            IF UrlHits(calc.arg) = {}
            THEN Https \o GithubRoot \o FirstUnderscoreSlashed(calc.arg)
            ELSE Https \o ForgeRoot(calc.arg) \o <<SLASH>>
                    \o FirstUnderscoreSlashed(Remainder(calc.arg))


SubApplied == calc.status = "applied" /\ calc.fn = "__sub__"

AddedPaths == Paths(calc.arg.new_files) \ Paths(calc.arg.old_files)

DeletedPaths == Paths(calc.arg.old_files) \ Paths(calc.arg.new_files)

\* the blob SHA a component of a tuple stands for, a string or a Blob
ShaIn(x) == IF x.t = "entity" THEN x.e.sha ELSE x.s

\* t tells what became of the added path p: a rename from a deleted path or a
\* pure addition
IsAdditionOf(t, p) ==
    /\ t[2] = Str(p)
    /\ t[4] # None /\ ShaIn(t[4]) = calc.arg.new_files[p]
    /\ \/ t[1] = None /\ t[3] = None
       \/ \E d \in DeletedPaths :
            t[1] = Str(d) /\ t[3] # None /\ ShaIn(t[3]) = calc.arg.old_files[d]

\* t tells what became of the deleted path p: a rename to an added path or a
\* pure deletion
IsDeletionOf(t, p) ==
    /\ t[1] = Str(p)
    /\ t[3] # None /\ ShaIn(t[3]) = calc.arg.old_files[p]
    /\ \/ t[2] = None /\ t[4] = None
       \/ \E a \in AddedPaths :
            t[2] = Str(a) /\ t[4] # None /\ ShaIn(t[4]) = calc.arg.new_files[a]

\* C13: at any threshold every path of only one of the two flattened trees is
\* in exactly one emitted tuple, an added path as the new side of a rename or
\* as a pure addition, a deleted path as the old side of a rename or as a pure
\* deletion; a path of both trees is emitted as (p, p, old, new) iff its blob
\* SHA differs.
C13_EveryPathInOneTuple ==
    SubApplied =>
        /\ \A p \in AddedPaths :
            /\ Cardinality({ t \in calc.out.emitted : t[2] = Str(p) }) = 1
            /\ \A t \in calc.out.emitted : t[2] = Str(p) => IsAdditionOf(t, p)
        /\ \A p \in DeletedPaths :
            /\ Cardinality({ t \in calc.out.emitted : t[1] = Str(p) }) = 1
            /\ \A t \in calc.out.emitted : t[1] = Str(p) => IsDeletionOf(t, p)
        /\ \A p \in Paths(calc.arg.new_files) \cap Paths(calc.arg.old_files) :
            /\ << Str(p), Str(p), Str(calc.arg.old_files[p]), Str(calc.arg.new_files[p]) >>
                    \in calc.out.emitted
                <=> calc.arg.old_files[p] # calc.arg.new_files[p]
            /\ Cardinality({ t \in calc.out.emitted : Str(p) \in { t[1], t[2] } }) <= 1

\* what holds of the diff: C13 when only exact matches are asked for, or when no
\* added path meets a deleted one
DiffWithoutMatching ==
    (SubApplied /\ (calc.arg.threshold >= 100 \/ AddedPaths = {} \/ DeletedPaths = {}))
    => C13_EveryPathInOneTuple /\ calc.out.end = Ret(None)

IsShaOrNone(x) == x = None \/ (x.t = "str" /\ Len(x.s) = 40 /\ IsHex(x.s))

\* C14: every emitted tuple is (old_path, new_path, old_sha, new_sha) with blob
\* SHA strings or None as third and fourth components, in the similarity branch
\* (threshold < 1) as in the exact branch and for modified paths.
C14_TuplesCarryShaStrings ==
    SubApplied =>
        \A t \in calc.out.emitted :
            /\ Len(t) = 4
            /\ IsShaOrNone(t[3])
            /\ IsShaOrNone(t[4])


\* The project a client holds, as the dataset describes it

\* the SHAs project_commits lists
Listed == Range(ProjectCommitShas(proj.repo))

IsStored(sha) == HexDecode(sha) \in DOMAIN proj.repo.commit_random

\* the parts of a stored commit
SourceOf(sha) == proj.repo.commit_random[HexDecode(sha)]

ListedAndStored == { sha \in Listed : IsStored(sha) }

\* the parents of the commits of the project
ParentsInProject == UNION { Range(SourceOf(sha).parents) : sha \in ListedAndStored }

\* the authored date of a stored commit, Unknown counted as epoch zero
AuthoredInstant(sha) ==
    IF IsDigit(SourceOf(sha).authored[1]) THEN SourceOf(sha).authored[1] - 48 ELSE 0

\* C15: the head of a project is a commit of the project that is not a parent
\* of any commit of the project, and its authored date (Unknown counted as
\* epoch zero) is the latest among such commits; every project that has at
\* least one commit has a head.
C15_HeadIsLatestChildless ==
    (proj.status = "held" /\ proj.op = "head" /\ Listed # {}) =>
        /\ ~IsRaise(proj.out)
        /\ proj.out.v.sha \in Listed \ ParentsInProject
        /\ \A g \in ListedAndStored \ ParentsInProject :
                AuthoredInstant(g) <= AuthoredInstant(proj.out.v.sha)

\* every listed commit is stored and none is made by the merge button
WholeProject ==
    /\ Listed = ListedAndStored
    /\ \A sha \in Listed : SourceOf(sha).author # MergeButton

\* the earliest date of the dated commits without parents, epoch zero if none
EarliestRoot ==
    IF \E r \in ListedAndStored :
            SourceOf(r).parents = <<>> /\ IsDigit(SourceOf(r).authored[1])
    THEN CHOOSE t \in 0..9 :
            /\ \E r \in ListedAndStored :
                    SourceOf(r).parents = <<>> /\ IsDigit(SourceOf(r).authored[1])
                    /\ AuthoredInstant(r) = t
            /\ \A r \in ListedAndStored :
                    (SourceOf(r).parents = <<>> /\ IsDigit(SourceOf(r).authored[1]))
                    => t <= AuthoredInstant(r)
    ELSE 0

\* the authored date as Project.commits leaves it: Unknown when it is earlier
\* than the earliest root
ValidatedInstant(sha) ==
    IF AuthoredInstant(sha) < EarliestRoot THEN 0 ELSE AuthoredInstant(sha)

\* what holds of head: C15 for a project all of whose commits are stored and
\* none of which is made by the merge button, with the dates as validated
HeadOfWholeProject ==
    (proj.status = "held" /\ proj.op = "head" /\ Listed # {} /\ WholeProject) =>
        /\ ~IsRaise(proj.out)
        /\ proj.out.v.sha \in Listed \ ParentsInProject
        /\ \A g \in Listed \ ParentsInProject :
                ValidatedInstant(g) <= ValidatedInstant(proj.out.v.sha)

\* the commits of the project without parents that are the first parent of
\* another commit of the project
FirstParentRoots ==
    { r \in ListedAndStored :
        /\ SourceOf(r).parents = <<>>
        /\ \E c \in ListedAndStored \ { r } :
                SourceOf(c).parents # <<>> /\ SourceOf(c).parents[1] = r }

\* C16: the tail of a project is a commit of the project with no parents whose
\* SHA is the first parent of another commit of the project, and there is only
\* one such commit, so that the result does not depend on the order in which
\* the commits are examined.
C16_TailIsTheOnlyRoot ==
    (proj.status = "held" /\ proj.op = "tail" /\ ~IsRaise(proj.out) /\ proj.out.v # None) =>
        /\ proj.out.v.s \in FirstParentRoots
        /\ Cardinality(FirstParentRoots) = 1

\* what holds of tail: what it returns is one of these roots
TailIsSomeRoot ==
    (proj.status = "held" /\ proj.op = "tail" /\ ~IsRaise(proj.out) /\ proj.out.v # None
        /\ WholeProject)
    => proj.out.v.s \in FirstParentRoots

Walking == proj.status = "held" /\ proj.op = "commits_fp"

\* each commit yielded after the first is the first parent of the one before
FollowsFirstParents ==
    \A i \in 1..(Len(proj.yielded) - 1) :
        /\ IsStored(proj.yielded[i])
        /\ SourceOf(proj.yielded[i]).parents # <<>>
        /\ SourceOf(proj.yielded[i]).parents[1] = proj.yielded[i + 1]

\* C17: commits_fp starts at the head of the project and yields a chain in
\* which each commit is the first parent of the one before; it ends at a commit
\* with no parents or when the next SHA cannot be retrieved.
C17_WalkFromHeadAlongFirstParents ==
    Walking =>
        /\ proj.yielded # <<>> =>
                proj.yielded[1] \in { h.v.sha : h \in { o \in ProjectHead(proj.repo) : ~IsRaise(o) } }
        /\ FollowsFirstParents
        /\ (proj.at = "ended" /\ proj.yielded # <<>>) => proj.end = Ret(None)

\* what holds of the walk: it follows first parents and yields no commit twice,
\* so that it ends in a dataset without cycles
WalkAlongFirstParents ==
    Walking =>
        /\ FollowsFirstParents
        /\ Cardinality(Range(proj.yielded)) = Len(proj.yielded)

\* C18: every commit that commits_fp yields belongs to the project: the SHAs
\* yielded are among Project.commit_shas and are no more than them.
C18_WalkWithinProject ==
    Walking =>
        /\ Range(proj.yielded) \subseteq Listed
        /\ Cardinality(Range(proj.yielded)) <= Cardinality(Listed)

\* what holds of the walk: C18 for a project that lists the first parent of
\* each of its commits
WalkWithinClosedProject ==
    (Walking /\ \A c \in ListedAndStored :
                    SourceOf(c).parents # <<>> => SourceOf(c).parents[1] \in Listed)
    => Range(proj.yielded) \subseteq Listed


\* C21: unber fails with MalformedBER when the last byte of its input has the
\* high bit set; it does not drop the unfinished integer and return the
\* integers decoded so far.
C21_UnterminatedBerRejected ==
    (UnberApplied /\ calc.arg # <<>> /\ calc.arg[Len(calc.arg)] >= 128)
    => calc.out = Raise("MalformedBER")


LzfApplied == calc.status = "applied" /\ calc.fn = "lzf_length"

\* the masks under which byte 0 is inspected, in order: 0x80, then two bits
\* lower, then one bit lower each time
HeaderMasks == << 128, 32, 16, 8, 4, 2, 1 >>

BitSet(byte, mask) == (byte \div mask) % 2 = 1

\* how many of the first masks find their bit set in byte 0
LeadingBits(byte) ==
    Cardinality({ k \in 1..Len(HeaderMasks) :
                    \A j \in 1..k : BitSet(byte, HeaderMasks[j]) })

\* the number of header bytes that byte 0 announces
AnnouncedHeader(raw) == 1 + LeadingBits(raw[1])

\* the mask at which the inspection of byte 0 stopped; 0 when every bit was set
StopMask(raw) ==
    IF LeadingBits(raw[1]) = Len(HeaderMasks) THEN 0
    ELSE HeaderMasks[LeadingBits(raw[1]) + 1]

\* the uncompressed size: the bits of byte 0 under the mask, then six bits of
\* each of the h - 1 continuation bytes
RECURSIVE SizeBits(_, _, _)
SizeBits(raw, h, k) ==
    IF k = 1 THEN raw[1] % StopMask(raw)
    ELSE 64 * SizeBits(raw, h, k - 1) + (raw[k] % 64)

AnnouncedSize(raw) == SizeBits(raw, AnnouncedHeader(raw), AnnouncedHeader(raw))

\* a frame has the header its first byte announces, and a size
IsFrame(raw) ==
    /\ raw # <<>> /\ raw[1] # 0
    /\ StopMask(raw) # 0
    /\ Len(raw) >= AnnouncedHeader(raw)
    /\ AnnouncedSize(raw) # 0

\* C22: for a frame whose first byte is not zero, lzf_length returns (H, U): H
\* the number of header bytes that the leading set bits of byte 0 announce, U
\* the bits of byte 0 below the mask extended by the low six bits of each
\* continuation byte; C4 9B gives (2, 283) and E1 AF A9 gives (3, 7145).
C22_LzfLengthReadsHeader ==
    LzfApplied =>
        /\ IsFrame(calc.arg)
            => calc.out = Ret(<< AnnouncedHeader(calc.arg), AnnouncedSize(calc.arg) >>)
        /\ calc.arg = <<196, 155>> => calc.out = Ret(<<2, 283>>)
        /\ calc.arg = <<225, 175, 169>> => calc.out = Ret(<<3, 7145>>)

C22_Witness ==
    LzfApplied /\ calc.arg = <<225, 175, 169>> /\ calc.out = Ret(<<3, 7145>>)

\* C23: lzf_length fails whenever the header that byte 0 announces extends
\* past the end of the input, or the size it computes is zero; a truncated
\* header is never read as a shorter valid one.
C23_TruncatedHeaderRejected ==
    (LzfApplied /\ calc.arg # <<>>
        /\ \/ StopMask(calc.arg) = 0
           \/ Len(calc.arg) < AnnouncedHeader(calc.arg)
           \/ AnnouncedSize(calc.arg) = 0)
    => IsRaise(calc.out)

\* what holds of lzf_length: it fails on an empty input, on a first byte all of
\* whose bits are set, and on a size of zero in a complete header
LzfLengthFailures ==
    (LzfApplied
        /\ \/ calc.arg = <<>>
           \/ (Len(calc.arg) >= AnnouncedHeader(calc.arg)
                /\ (StopMask(calc.arg) = 0 \/ AnnouncedSize(calc.arg) = 0)))
    => calc.out = Raise("ValueError")

-----------------------------------------------------------------------------
(* Sequential scan: GitObject.all *)

\* the number of bits of the shard index of the sequential files
ScanBits == 2

ScanShards == 0..(2 ^ ScanBits - 1)

\* PATHS[cls.type + '_sequential_idx'] and PATHS[cls.type + '_sequential_bin']:
\* the name the files of the class start with, and the prefix length; PATHS
\* has the two keys for commits and for trees, and the files of trees are
\* those named blob_{key}
SequentialPaths(type) ==
    CASE type = "commit" -> Ret(<<"commit", ScanBits>>)
      [] type = "tree" -> Ret(<<"blob", ScanBits>>)
      [] OTHER -> Raise("KeyError")

\* datafile.read(n) at position pos: the n bytes from pos on, fewer at the end
\* of the file; the reading of every line starts at the beginning of the file
DataFileRewound(bin, pos, n) == Slice(bin, 0, n)

\* datafile.read(n) at position pos: the n bytes from pos on, or fewer at the
\* end of the file
DataFileRead(bin, pos, n) == Slice(bin, pos, pos + n)

\* the fields offset, comp_length and sha of a line, or the error of the
\* unpacking and of int()
LineFields(line) ==
    LET chunks == Split(Strip(line), SEMI) IN
    IF Len(chunks) > 4
    THEN (IF IsRaise(IntOf(chunks[3])) THEN Raise("ValueError")
          ELSE Ret([comp_length |-> IntOf(chunks[3]).v, sha |-> chunks[5]]))
    ELSE IF Len(chunks) # 4 THEN Raise("ValueError")
    ELSE IF IsRaise(IntOf(chunks[3])) THEN Raise("ValueError")
    ELSE Ret([comp_length |-> IntOf(chunks[3]).v, sha |-> chunks[4]])

\* the body of the inner loop for one line: obj = cls(sha), then obj._data
ScanLine(cls, fields, obj, raw) ==
    IF IsRaise(fields) THEN fields
    ELSE IF IsRaise(obj) THEN obj
    ELSE IF IsRaise(decomp(Str(raw))) THEN decomp(Str(raw))
    ELSE Ret([obj |-> obj.v, _data |-> decomp(Str(raw)).v, read |-> Len(raw)])

\* the generator from its position on, up to the next yield, the end of the
\* outer loop or an exception
RECURSIVE ScanResume(_, _, _, _, _)
ScanResume(cls, files, key, line, pos) ==
    IF key \notin ScanShards THEN [status |-> "done"]
    ELSE IF line >= Len(files[key].idx) THEN ScanResume(cls, files, key + 1, 0, 0)
    ELSE \* with a negative length read() returns the rest of the file
         LET fields == LineFields(files[key].idx[line + 1])
             n == IF IsRaise(fields) THEN 0 ELSE fields.v.comp_length
             raw == IF n < 0 THEN From(files[key].bin, pos)
                    ELSE DataFileRead(files[key].bin, pos, n)
             got == ScanLine(cls, fields,
                             IF IsRaise(fields) THEN fields
                             ELSE GitObjectInit(cls, fields.v.sha), raw)
         IN  IF IsRaise(got) THEN [status |-> "raised", e |-> got.e]
             ELSE [status |-> "yielded", key |-> key, line |-> line + 1,
                   pos |-> pos + got.v.read,
                   item |-> [shard |-> key, obj |-> got.v.obj, _data |-> got.v._data]]

\* the lines of the fixtures: index;offset;compressed length;sha, and for
\* blobs index;offset;compressed length;length;sha
IdxLine(fields) == Join(fields, <<SEMI>>) \o <<NL>>

ScanSha(key, fill) == HexEncode(MkSha(key, fill))

\* two objects, the first stored as it is and the second compressed
PairShard(key) ==
    [idx |-> << IdxLine(<< <<48>>, <<48>>, <<52>>, ScanSha(key, 1) >>),
                IdxLine(<< <<49>>, <<52>>, <<53>>, ScanSha(key, 2) >>) >>,
     bin |-> Stored(<<104, 105, 10>>) \o <<3, 2, 97, 98, 99>>]

\* two objects in lines of five fields, whose offsets are those of another file
MovedShard(key) ==
    [idx |-> << IdxLine(<< <<48>>, <<57, 57>>, <<51>>, <<50>>, ScanSha(key, 3) >>),
                IdxLine(<< <<49>>, <<48>>, <<50>>, <<49>>, ScanSha(key, 4) >>) >>,
     bin |-> Stored(<<104, 105>>) \o Stored(<<33>>)]

EmptyShard == [idx |-> <<>>, bin |-> <<>>]

\* an object, then a line that lacks its last field
CutShard(key) ==
    [idx |-> << IdxLine(<< <<48>>, <<48>>, <<51>>, ScanSha(key, 5) >>),
                IdxLine(<< <<49>>, <<51>>, <<50>> >>) >>,
     bin |-> Stored(<<104, 105>>) \o Stored(<<33>>)]

ShardKinds == { "empty", "pair", "moved", "cut" }

ShardOfKind(kind, key) ==
    CASE kind = "pair" -> PairShard(key)
      [] kind = "moved" -> MovedShard(key)
      [] kind = "cut" -> CutShard(key)
      [] OTHER -> EmptyShard

\* the datasets: the kind of a shard goes by its index modulo 3, and no
\* dataset starts with a line that is cut
ScanDatasets ==
    { [key \in ScanShards |-> ShardOfKind(kinds[(key % 3) + 1], key)] :
        kinds \in { k \in [1..3 -> ShardKinds] : k[1] # "cut" } }

ScanClasses == { "Commit", "Tree", "Blob" }

InitScan ==
    /\ StoreIdle /\ IterIdle /\ EntsIdle /\ WalkIdle /\ ParseIdle /\ CalcIdle
    /\ ProjIdle /\ ThrIdle /\ MemoIdle
    /\ \E cls \in ScanClasses, files \in ScanDatasets :
          scan = [status |-> "called", cls |-> cls, files |-> files,
                  key |-> 0, line |-> 0, pos |-> 0, yielded |-> <<>>, e |-> "none"]

ScanUnchanged ==
    UNCHANGED <<pool, handles, call, disk, iter, ents, walk, parse, calc, proj, thr, memo>>

ScanBecomes(r) ==
    IF r.status = "yielded"
    THEN scan' = [scan EXCEPT !.status = "yielded", !.key = r.key, !.line = r.line,
                              !.pos = r.pos, !.yielded = Append(@, r.item)]
    ELSE IF r.status = "raised"
    THEN scan' = [scan EXCEPT !.status = "raised", !.e = r.e]
    ELSE scan' = [scan EXCEPT !.status = "done"]

\* the first next() on the generator: the body of all() from its first line
ScanFirst ==
    /\ scan.status = "called"
    /\ IF IsRaise(SequentialPaths(ClassType(scan.cls)))
       THEN scan' = [scan EXCEPT !.status = "raised",
                                 !.e = SequentialPaths(ClassType(scan.cls)).e]
       ELSE \E r \in { ScanResume(scan.cls, scan.files, 0, 0, 0) } : ScanBecomes(r)
    /\ ScanUnchanged

\* a later next(): the generator resumes after its yield
ScanNext ==
    /\ scan.status = "yielded"
    /\ \E r \in { ScanResume(scan.cls, scan.files, scan.key, scan.line, scan.pos) } :
          ScanBecomes(r)
    /\ ScanUnchanged

NextScan == ScanFirst \/ ScanNext

SpecScan == InitScan /\ [][NextScan]_vars

\* the well-formed lines a shard starts with
RECURSIVE GoodLines(_, _)
GoodLines(idx, n) ==
    IF n < Len(idx) /\ ~IsRaise(LineFields(idx[n + 1])) THEN GoodLines(idx, n + 1) ELSE n

\* the compressed lengths of the first n lines, added up
RECURSIVE LengthsBefore(_, _)
LengthsBefore(idx, n) ==
    IF n = 0 THEN 0
    ELSE LengthsBefore(idx, n - 1) + LineFields(idx[n]).v.comp_length

\* what line n of a shard stands for: the SHA of the line, and the content
\* decoded from the comp_length bytes that follow those of the lines before
LineObject(file, key, n) ==
    [shard |-> key, sha |-> LineFields(file.idx[n]).v.sha,
     content |-> decomp(Str(SubSeq(file.bin, LengthsBefore(file.idx, n - 1) + 1,
                                   LengthsBefore(file.idx, n)))).v]

ShardObjects(file, key) ==
    [n \in 1..GoodLines(file.idx, 0) |-> LineObject(file, key, n)]

\* the shards up to the first one with a line that is not well-formed
RECURSIVE ObjectsFrom(_, _)
ObjectsFrom(files, key) ==
    IF key \notin ScanShards THEN <<>>
    ELSE IF GoodLines(files[key].idx, 0) < Len(files[key].idx)
    THEN ShardObjects(files[key], key)
    ELSE ShardObjects(files[key], key) \o ObjectsFrom(files, key + 1)

Seen(item) == [shard |-> item.shard, sha |-> item.obj.sha, content |-> item._data]

\* C24: GitObject.all visits the shards in ascending index and yields, within
\* a shard, one entity per line of the .idx file in the order of the lines;
\* the .bin file is read from its beginning on without seeking, the content of
\* a line being decoded from the comp_length bytes after those of the lines
\* before it; every entity has the SHA of its line and holds the content.
C24_ScanInLineOrder ==
    scan.status \in { "yielded", "done" } =>
        /\ \E objects \in { ObjectsFrom(scan.files, 0) } :
              /\ Len(scan.yielded) <= Len(objects)
              /\ \A n \in 1..Len(scan.yielded) :
                    /\ Seen(scan.yielded[n]) = objects[n]
                    /\ scan.yielded[n].obj.cls = scan.cls
              /\ scan.status = "done" => Len(scan.yielded) = Len(objects)
        /\ scan.status = "yielded" =>
              scan.pos = LengthsBefore(scan.files[scan.key].idx, scan.line)

C24_Witness ==
    /\ scan.status = "done"
    /\ Len(scan.yielded) >= 4
    /\ \E n \in 1..(Len(scan.yielded) - 1) :
          /\ scan.yielded[n].shard = scan.yielded[n + 1].shard
          /\ scan.yielded[n + 1]._data = Str(<<97, 98, 99>>)

-----------------------------------------------------------------------------
(* The pool after a failed open *)

\* C30: when the opening of a shard file fails during a lookup, the pool has no
\* entry for that path afterwards: every handle in the pool was opened, and a
\* later lookup of the path opens again.
C30_PoolHoldsOpenHandles ==
    /\ \A p \in DOMAIN pool : IsOpen(handles, pool[p])
    /\ (call.op = "_get_tch" /\ IsRaise(call.out)) => TchPath(call.path) \notin DOMAIN pool

\* what holds instead: a lookup raises only on a miss, and a lookup of a path
\* that is in the pool returns the handle stored there, open or not
FailedOpenStaysPooled ==
    (call.op = "_get_tch" /\ IsRaise(call.out))
        => /\ ~call.hit
           /\ TchPath(call.path) \in DOMAIN pool
           /\ ~IsOpen(handles, pool[TchPath(call.path)])

-----------------------------------------------------------------------------
(* Two threads in the store functions *)

\* One process runs two threads. The interpreter switches threads between
\* bytecodes and around blocking calls, so each step below is one dictionary
\* operation or one call on a handle, and the steps of the two threads
\* interleave in every order. No function of the store takes a lock.

Threads == { 1, 2 }

\* the files of this section: two hash files, one of them missing, and a
\* packed file of two blobs
ShardX == "x.tch"
ShardY == "y.tch"
PackZ == "z.bin"
ThreadFiles == { ShardX, PackZ }
PackBytes == Stored(<<104, 105, 10>>) \o <<3, 2, 97, 98, 99>>

\* the dictionary a function keeps its handles in
PoolOf(op) ==
    CASE op = "_get_tch" -> "_TCH_POOL"
      [] op = "TCH" -> "TCH.pool"
      [] OTHER -> "BlobPool.pool"

LookupOps == { "_get_tch", "TCH" }
FetchOps == { "Blob.data", "read_binary" }

ThreadCalls ==
    [op : LookupOps, path : { ShardX, ShardY }, offset : {0}, length : {0}]
        \cup [op : FetchOps, path : { PackZ }, offset : {0}, length : {4}]
        \cup [op : FetchOps, path : { PackZ }, offset : {4}, length : {5}]

FirstPc(op) == IF op = "Blob.data" THEN "fopen" ELSE "test"

ThreadAt(c) == [op |-> c.op, path |-> c.path, offset |-> c.offset, length |-> c.length,
                pc |-> FirstPc(c.op), fh |-> 0, out |-> None]

InitThreads ==
    /\ StoreIdle /\ IterIdle /\ EntsIdle /\ WalkIdle /\ ParseIdle /\ CalcIdle
    /\ ProjIdle /\ ScanIdle /\ MemoIdle
    /\ \E c1 \in ThreadCalls, c2 \in ThreadCalls :
          thr = [status |-> "running", pools |-> <<>>, hs |-> <<>>,
                 t |-> [n \in Threads |-> ThreadAt(IF n = 1 THEN c1 ELSE c2)]]

ThrUnchanged ==
    UNCHANGED <<pool, handles, call, disk, iter, ents, walk, parse, calc, proj, scan, memo>>

PoolKey(t) == << PoolOf(thr.t[t].op), thr.t[t].path >>

At(t, pc) == thr.status = "running" /\ thr.t[t].pc = pc

\* `if path not in _TCH_POOL`, `if path not in cls.pool`
PoolTest(t) ==
    /\ At(t, "test")
    /\ thr' = [thr EXCEPT !.t[t].pc =
                  IF PoolKey(t) \in DOMAIN thr.pools THEN "return" ELSE "store"]
    /\ ThrUnchanged

\* `_TCH_POOL[path] = tch.Hash()`, `cls.pool[path] = hash.Hash()`: a handle that
\* is not open; `cls.pool[path] = open(path, 'rb')`: an open file
PoolStore(t) ==
    /\ At(t, "store")
    /\ thr' = [thr EXCEPT
          !.hs = Append(@, [path |-> thr.t[t].path, open |-> thr.t[t].op \notin LookupOps,
                            pos |-> 0, by |-> t, dict |-> PoolOf(thr.t[t].op)]),
          !.pools = [k \in DOMAIN @ \cup { PoolKey(t) } |->
                        IF k = PoolKey(t) THEN Len(thr.hs) + 1 ELSE @[k]],
          !.t[t].pc = IF thr.t[t].op \in LookupOps THEN "lookup" ELSE "return"]
    /\ ThrUnchanged

\* the subscript of `_TCH_POOL[path].open(...)`
TchLookup(t) ==
    /\ At(t, "lookup")
    /\ thr' = [thr EXCEPT !.t[t].fh = thr.pools[PoolKey(t)], !.t[t].pc = "open"]
    /\ ThrUnchanged

\* the call of `_TCH_POOL[path].open(...)`: it raises when the file is not
\* there; on a handle that is open already the library either raises or
\* leaves the handle as it is
TchOpen(t) ==
    /\ At(t, "open")
    /\ \/ /\ thr.t[t].path \in ThreadFiles
          /\ thr' = [thr EXCEPT !.hs[thr.t[t].fh].open = TRUE, !.t[t].pc = "return"]
       \/ /\ thr.t[t].path \notin ThreadFiles \/ thr.hs[thr.t[t].fh].open
          /\ thr' = [thr EXCEPT !.t[t].out = Raise("tch.error"), !.t[t].pc = "done"]
    /\ ThrUnchanged

\* `return _TCH_POOL[path]`, `return cls.pool[path]`
PoolReturn(t) ==
    /\ At(t, "return")
    /\ IF thr.t[t].op \in LookupOps
       THEN thr' = [thr EXCEPT
                !.t[t].fh = thr.pools[PoolKey(t)],
                !.t[t].out = Ret([handle |-> thr.pools[PoolKey(t)],
                                  open |-> thr.hs[thr.pools[PoolKey(t)]].open]),
                !.t[t].pc = "done"]
       ELSE thr' = [thr EXCEPT !.t[t].fh = thr.pools[PoolKey(t)], !.t[t].pc = "seek"]
    /\ ThrUnchanged

\* Blob.data: `with open(self.resolve_path('blob_data'), 'rb') as fh`
FileOpen(t) ==
    /\ At(t, "fopen")
    /\ thr' = [thr EXCEPT
          !.hs = Append(@, [path |-> thr.t[t].path, open |-> TRUE, pos |-> 0,
                            by |-> t, dict |-> "none"]),
          !.t[t].fh = Len(thr.hs) + 1,
          !.t[t].pc = "seek"]
    /\ ThrUnchanged

\* `fh.seek(offset)`
FileSeek(t) ==
    /\ At(t, "seek")
    /\ thr' = [thr EXCEPT !.hs[thr.t[t].fh].pos = thr.t[t].offset, !.t[t].pc = "read"]
    /\ ThrUnchanged

FileReadAt(t, raw) ==
    thr' = [thr EXCEPT !.hs[thr.t[t].fh].pos = @ + Len(raw),
                       !.t[t].out = decomp(Str(raw)),
                       !.t[t].pc = "done"]

\* `return decomp(fh.read(length))`
FileRead(t) ==
    /\ At(t, "read")
    /\ FileReadAt(t, Slice(PackBytes, thr.hs[thr.t[t].fh].pos,
                           thr.hs[thr.t[t].fh].pos + thr.t[t].length))
    /\ ThrUnchanged

NextThreads ==
    \E t \in Threads :
        \/ PoolTest(t)
        \/ PoolStore(t)
        \/ TchLookup(t)
        \/ TchOpen(t)
        \/ PoolReturn(t)
        \/ FileOpen(t)
        \/ FileSeek(t)
        \/ FileRead(t)

SpecThreads == InitThreads /\ [][NextThreads]_vars

Running == thr.status = "running"

BothDone == Running /\ \A t \in Threads : thr.t[t].pc = "done"

\* the two threads look up the same path, whose file is there, with the same
\* function; the pool is empty when they start
SameLookup ==
    /\ Running
    /\ thr.t[1].op \in LookupOps
    /\ thr.t[1].op = thr.t[2].op
    /\ thr.t[1].path = thr.t[2].path
    /\ thr.t[1].path \in ThreadFiles

HandlesMadeFor(dict, path) ==
    { h \in 1..Len(thr.hs) : thr.hs[h].dict = dict /\ thr.hs[h].path = path }

\* C25: when two threads look up the same path that is not in the pool yet, the
\* insertion on a miss is serialised: one handle is created and opened, and no
\* thread is handed a handle that has not finished opening.
C25_MissIsSerialised ==
    SameLookup =>
        /\ Cardinality(HandlesMadeFor(PoolOf(thr.t[1].op), thr.t[1].path)) <= 1
        /\ \A t \in Threads :
              thr.t[t].pc = "done" => (~IsRaise(thr.t[t].out) /\ thr.t[t].out.v.open)

\* what is left of it without a lock: the pool has at most one entry per path
\* at a time, and a thread that ran its lookup alone gets an open handle
LookupAlone ==
    (Running /\ thr.t[1].op \in LookupOps /\ thr.t[1].path \in ThreadFiles
        /\ thr.t[1].pc = "done" /\ thr.t[2].pc = FirstPc(thr.t[2].op))
    => thr.t[1].out = Ret([handle |-> 1, open |-> TRUE])

\* the bytes a fetch asks for, decoded
Asked(t) == decomp(Str(Slice(PackBytes, thr.t[t].offset, thr.t[t].offset + thr.t[t].length)))

OwnHandlePerFetch ==
    \A t \in Threads :
        (Running /\ thr.t[t].op = "Blob.data")
            => /\ thr.t[t].pc = "done" => thr.t[t].out = Asked(t)
               /\ thr.t[t].fh # 0 => thr.hs[thr.t[t].fh].by = t
               /\ \A u \in Threads \ {t} : thr.t[t].fh # 0 => thr.t[u].fh # thr.t[t].fh

-----------------------------------------------------------------------------
(* Cached properties *)

\* `key = "_" + func.__name__`
CacheKey(name) ==
    CASE name = "position" -> "_position"
      [] name = "data" -> "_data"
      [] OTHER -> "_commit_shas"

\* a wrapper that finds no attribute ever
CacheMissEver(attrs, key) == TRUE

\* `if not hasattr(self, key)`
CacheMiss(attrs, key) == key \notin DOMAIN attrs

\* what an access leaves: the attributes of the instance, the pool, the
\* outcome, the properties computed on the way, those whose computation raised,
\* and the number of times the store was read
Accessed(attrs, P, H, out, ran, failed, reads) ==
    [attrs |-> attrs, pool |-> P, handles |-> H, out |-> out,
     ran |-> ran, failed |-> failed, reads |-> reads]

\* the wrapper of cached_property around a computation whose result is c
cached_property(name, attrs, P, H, c) ==
    IF CacheMiss(attrs, CacheKey(name))
    THEN IF IsRaise(c.out)
         THEN [c EXCEPT !.ran = Append(@, name), !.failed = Append(@, name)]
         ELSE [c EXCEPT !.attrs = SetAttr(@, CacheKey(name), c.out.v),
                        !.ran = Append(@, name)]
    ELSE Accessed(attrs, P, H, Ret(attrs[CacheKey(name)]), <<>>, <<>>, 0)

\* Blob.position under its wrapper
PositionComputed(attrs, r) == Accessed(attrs, r.pool, r.handles, r.out, <<>>, <<>>, 1)

CachedPosition(self, attrs, P, H) ==
    cached_property("position", attrs, P, H,
                    PositionComputed(attrs, BlobPosition(self, P, H)))

\* Blob.data under its wrapper: `self.position` is an access of its own
DataComputed(p, d) ==
    Accessed(p.attrs, d.pool, d.handles, d.out, p.ran, p.failed,
             p.reads + (IF IsRaise(p.out) THEN 0 ELSE 1))

DataAfter(self, p) ==
    DataComputed(p, DataWith([pool |-> p.pool, handles |-> p.handles, out |-> p.out],
                             EntityPath(self, "blob_data")))

CachedData(self, attrs, P, H) ==
    cached_property("data", attrs, P, H, DataAfter(self, CachedPosition(self, attrs, P, H)))

\* Blob.commit_shas under its wrapper
ShasComputed(attrs, r) == Accessed(attrs, r.pool, r.handles, r.out, <<>>, <<>>, 1)

CachedCommitShas(self, attrs, P, H) ==
    cached_property("commit_shas", attrs, P, H,
        ShasComputed(attrs, Relation(<<"Blob", "commit_shas", "blob_commits", "sha">>,
                                     self, P, H)))

CachedProps == { "position", "data", "commit_shas" }

Access(name, self, attrs, P, H) ==
    CASE name = "position" -> CachedPosition(self, attrs, P, H)
      [] name = "data" -> CachedData(self, attrs, P, H)
      [] OTHER -> CachedCommitShas(self, attrs, P, H)

\* how often a computation of one property is let run
MaxRuns == 2

Instances == { 1, 2 }

\* blobs that are stored, one that the offset index lacks, one whose packed
\* file is missing
MemoShas == { BlobA, BlobB, BlobD, BlobF }

Times(name, names) == Cardinality({ k \in 1..Len(names) : names[k] = name })

InitMemo ==
    /\ StoreIdle /\ IterIdle /\ EntsIdle /\ WalkIdle /\ ParseIdle /\ CalcIdle
    /\ ProjIdle /\ ScanIdle /\ ThrIdle
    /\ \E shas \in [Instances -> MemoShas] :
          memo = [status |-> "held",
                  objs |-> [i \in Instances |->
                              [self |-> Entity("Blob", shas[i]), attrs |-> <<>>,
                               runs |-> [n \in CachedProps |-> 0],
                               fails |-> [n \in CachedProps |-> 0]]],
                  last |-> [inst |-> 0, name |-> "", out |-> None, ran |-> <<>>,
                            reads |-> 0]]

\* `instance.name` for a cached property
ReadCached ==
    /\ memo.status = "held"
    /\ \E i \in Instances, name \in CachedProps :
        \E r \in { Access(name, memo.objs[i].self, memo.objs[i].attrs, pool, handles) } :
            /\ \A n \in CachedProps : memo.objs[i].runs[n] + Times(n, r.ran) <= MaxRuns
            /\ memo' = [memo EXCEPT
                  !.objs[i].attrs = r.attrs,
                  !.objs[i].runs = [n \in CachedProps |-> @[n] + Times(n, r.ran)],
                  !.objs[i].fails = [n \in CachedProps |-> @[n] + Times(n, r.failed)],
                  !.last = [inst |-> i, name |-> name, out |-> r.out, ran |-> r.ran,
                            reads |-> r.reads]]
            /\ pool' = r.pool
            /\ handles' = r.handles
    /\ UNCHANGED <<call, disk, iter, ents, walk, parse, calc, proj, scan, thr>>

NextMemo == ReadCached

SpecMemo == InitMemo /\ [][NextMemo]_vars

\* the access that a step made, seen from both of its states
ReadOf(i, name) == memo'.last.inst = i /\ memo'.last.name = name

\* C28: a cached property runs its computation at most once per instance:
\* once an access has succeeded, later accesses return the stored value and do
\* not read the store; the value stored in one instance is not seen through
\* another; a computation that raises stores nothing, and the next access
\* computes again.
C28_ComputedOncePerInstance ==
    [][ \A i \in Instances, name \in CachedProps :
          /\ memo'.objs[i].runs[name] - memo'.objs[i].fails[name] <= 1
          /\ ReadOf(i, name) =>
                /\ CacheKey(name) \in DOMAIN memo.objs[i].attrs =>
                      /\ memo'.last.out = Ret(memo.objs[i].attrs[CacheKey(name)])
                      /\ memo'.last.reads = 0
                      /\ memo'.objs = memo.objs
                      /\ pool' = pool /\ handles' = handles
                /\ CacheKey(name) \notin DOMAIN memo.objs[i].attrs =>
                      memo'.objs[i].runs[name] = memo.objs[i].runs[name] + 1
                /\ IsRaise(memo'.last.out) =>
                      /\ CacheKey(name) \notin DOMAIN memo'.objs[i].attrs
                      /\ memo'.objs[i].fails[name] = memo.objs[i].fails[name] + 1
                /\ ~IsRaise(memo'.last.out) =>
                      /\ CacheKey(name) \in DOMAIN memo'.objs[i].attrs
                      /\ memo'.objs[i].attrs[CacheKey(name)] = memo'.last.out.v
                /\ \A j \in Instances \ {i} : memo'.objs[j] = memo.objs[j]
      ]_vars

\* two instances of one blob have each computed their data, the last access
\* was answered from the instance, and a third property has raised twice
C28_Witness ==
    /\ memo.status = "held"
    /\ memo.objs[1].self = memo.objs[2].self
    /\ \A i \in Instances : memo.objs[i].runs["data"] = 1 /\ "_data" \in DOMAIN memo.objs[i].attrs
    /\ memo.last.name = "data" /\ memo.last.ran = <<>> /\ memo.last.reads = 0
    /\ memo.last.out = Ret(memo.objs[1].attrs["_data"])

\* a computation has raised twice for one instance, and nothing is stored
MemoRaisedTwice ==
    \E i \in Instances :
        /\ memo.status = "held"
        /\ memo.objs[i].fails["position"] = 2
        /\ "_position" \notin DOMAIN memo.objs[i].attrs

-----------------------------------------------------------------------------
(* Iterating a project *)

Iterated == proj.status = "held" /\ proj.op \in { "__iter__", "commits" }

\* a listed commit that the iteration is to yield: stored, and not made by the
\* merge button
ToBeYielded(sha) == IsStored(sha) /\ SourceOf(sha).author # MergeButton

YieldedShas == [n \in 1..Len(proj.out.v) |-> proj.out.v[n].sha]

\* C29: iterating a project skips, without raising, every listed commit whose
\* content is not in the dataset, and leaves out every commit of the merge
\* button; every commit that Project.__iter__ and Project.commits yield has
\* content that was retrieved and parsed.
C29_IterationSkipsAbsentCommits ==
    Iterated =>
        /\ ~IsRaise(proj.out)
        /\ YieldedShas = SelectSeq(ProjectCommitShas(proj.repo), ToBeYielded)
        /\ \A n \in 1..Len(proj.out.v) :
              proj.out.v[n].obj["author"] = Str(SourceOf(proj.out.v[n].sha).author)

\* what holds: a project whose listed commits are all stored is iterated
\* without its merge-button commits, and a listed commit that is not stored
\* ends the iteration with ValueError
IterationOfStoredCommits ==
    Iterated =>
        IF Listed = ListedAndStored
        THEN /\ ~IsRaise(proj.out)
             /\ YieldedShas = SelectSeq(ProjectCommitShas(proj.repo), ToBeYielded)
             /\ \A n \in 1..Len(proj.out.v) :
                   proj.out.v[n].obj["author"] = Str(SourceOf(proj.out.v[n].sha).author)
        ELSE proj.out = Raise("ValueError")

=============================================================================
